---- MODULE Spec2Model ----
(***************************************************************************)
(* Sorted-sibling index of libyang (src/src/tree_data_sorted.c): a         *)
(* red-black tree of rb_node records overlaid on a run of same-schema      *)
(* sibling data nodes kept in a doubly-linked list.  The first member of   *)
(* the run (the leader) carries the 'lyds_tree' metadata whose value is    *)
(* the root of the tree.                                                   *)
(***************************************************************************)
EXTENDS Integers, Sequences, FiniteSets, TLC

\* ---------------------------------------------------------------- bounds
NumD == 5        \* instances of the (leaf-)list that the operations take
MaxGroup == 3    \* the most instances that share one sort value
MaxKeys == 2     \* the most keys of a list schema
MaxKeyVal == 2   \* the values of a key leaf are 1..MaxKeyVal
MaxRest == 1     \* the most children of a list instance that are not keys

\* ------------------------------------------------------ program constants
RB_BLACK == 0
RB_RED == 1
NULL == 0
LY_SUCCESS == 0
LY_EMEM == 1
LY_EINT == 6

\* instances of the sorted (leaf-)list: those the operations take, and one more that
\* only the runs of SpecHeight take, which have the fewest other choices
DNodes == 1..(NumD + 1)
DFew == 1..NumD
OtherBefore == NumD + 2           \* a sibling of another schema, before the run
OtherAfter == NumD + 3            \* a sibling of another schema, after the run
AllD == 1..(NumD + 3)
RbIds == 1..(2 * (NumD + 3))       \* addresses calloc can hand out: never exhausted

\* calloc(1, sizeof(struct rb_node)): all members zero
ZeroNode == [parent |-> NULL, left |-> NULL, right |-> NULL, dnode |-> NULL, color |-> RB_BLACK]

VARIABLES
    val,      \* val[d]: the value the sort callback orders instance d by
    modyang,  \* whether the context of the data holds the 'yang' module
    sibs,     \* the sibling linked list, first to last
    meta,     \* meta[d]: the 'lyds_tree' metadata records of d, each the rbt it holds
    rb,       \* rb[a]: the struct rb_node at address a
    live,     \* addresses allocated and not freed
    pc,       \* position inside the running public operation
    leader,   \* the caller's leader reference (struct lyd_node **leader)
    node,     \* the data node the running operation was called with
    l_rbt,    \* local rbt of lyds_insert / lyds_unlink
    l_meta,   \* local root_meta: the data node holding the record, and its index
    l_iter,   \* local iter of lyds_additionally_create_rb_tree
    l_rbn,    \* local rbn of lyds_free_tree: the rb_node to free next
    l_state,  \* local iter_state of lyds_free_tree
    arg,      \* the arguments of a call of lyds_is_supported or lyds_compare_single
    result,   \* what that call returned
    ret,      \* what the last finished lyds_insert returned
    op,       \* the public operation running or last finished
    pre       \* the list, metadata and memory when the running operation was called

vars == <<val, modyang, sibs, meta, rb, live, pc, leader, node, l_rbt, l_meta, l_iter, l_rbn,
          l_state, arg, result, ret, op, pre>>

NoMeta == [d |-> NULL, i |-> 0]

NoPre == [sibs |-> <<>>, meta |-> <<>>, rb |-> <<>>, live |-> {}]

NoArg == [fn |-> "none"]

NoResult == [fn |-> "none"]

\* ------------------------------------------------------------- schema
\* node->schema: the run's schema for DNodes, another one for the two others
SchemaOf(d) == IF d \in DNodes THEN "list" ELSE IF d = OtherBefore THEN "before" ELSE "after"

\* ------------------------------------------------------------- comparator
\* the sort callback with its arguments exchanged
rb_sort_clb_swapped(v1, v2) == v2 - v1

rb_sort_clb(v1, v2) == v1 - v2

rb_compare(n1, n2) == rb_sort_clb(val[n1], val[n2])

\* ---------------------------------------------------------- tree engine
\* A tree value T is [n |-> the rb_node memory, rbt |-> the root pointer].

rb_set(n, rbn, parent) ==
    [n EXCEPT ![rbn].parent = parent, ![rbn].left = NULL, ![rbn].right = NULL,
              ![rbn].color = RB_RED]

rb_set_blackred(n, black, red) ==
    [n EXCEPT ![black].color = RB_BLACK, ![red].color = RB_RED]

\* rotations, lines 380-390 and 408-418: tmp takes the place of rbn under rbn's parent
rb_rotate_reparent(T, rbn, tmp) ==
    LET parent == T.n[rbn].parent IN
    IF parent # NULL
    THEN IF rbn = T.n[parent].left
         THEN [T EXCEPT !.n[tmp].parent = parent, !.n[parent].left = tmp]
         ELSE [T EXCEPT !.n[tmp].parent = parent, !.n[parent].right = tmp]
    ELSE [T EXCEPT !.n[tmp].parent = parent, !.rbt = tmp]

\* rb_rotate_left, lines 374-378: the left child of tmp becomes the right child of rbn
rb_rotate_left_child(T, rbn, tmp) ==
    IF T.n[tmp].left # NULL
    THEN [T EXCEPT !.n[rbn].right = T.n[tmp].left, !.n[T.n[tmp].left].parent = rbn]
    ELSE [T EXCEPT !.n[rbn].right = NULL]

\* the end of rb_rotate_left without the new parent of rbn
rb_rotate_left_link_half(T, rbn, tmp) == [T EXCEPT !.n[tmp].left = rbn]

\* rb_rotate_left, lines 392-393
rb_rotate_left_link(T, rbn, tmp) == [T EXCEPT !.n[tmp].left = rbn, !.n[rbn].parent = tmp]

rb_rotate_left(T, rbn) ==
    rb_rotate_left_link(
        rb_rotate_reparent(rb_rotate_left_child(T, rbn, T.n[rbn].right), rbn, T.n[rbn].right),
        rbn, T.n[rbn].right)

\* rb_rotate_right, lines 402-406: the right child of tmp becomes the left child of rbn
rb_rotate_right_child(T, rbn, tmp) ==
    IF T.n[tmp].right # NULL
    THEN [T EXCEPT !.n[rbn].left = T.n[tmp].right, !.n[T.n[tmp].right].parent = rbn]
    ELSE [T EXCEPT !.n[rbn].left = NULL]

\* rb_rotate_right, lines 420-421
rb_rotate_right_link(T, rbn, tmp) == [T EXCEPT !.n[tmp].right = rbn, !.n[rbn].parent = tmp]

rb_rotate_right(T, rbn) ==
    rb_rotate_right_link(
        rb_rotate_reparent(rb_rotate_right_child(T, rbn, T.n[rbn].left), rbn, T.n[rbn].left),
        rbn, T.n[rbn].left)

\* rb_insert_color, lines 435-439 and 453-457: the uncle tmp is red
rb_insert_color_recolor(T, tmp, parent, gparent) ==
    [T EXCEPT !.n = rb_set_blackred([T.n EXCEPT ![tmp].color = RB_BLACK], parent, gparent)]

\* rb_insert_color, lines 449-450
rb_insert_color_right(T, parent, gparent) ==
    rb_rotate_right([T EXCEPT !.n = rb_set_blackred(T.n, parent, gparent)], gparent)

\* rb_insert_color, lines 467-468
rb_insert_color_left(T, parent, gparent) ==
    rb_rotate_left([T EXCEPT !.n = rb_set_blackred(T.n, parent, gparent)], gparent)

IsRed(n, x) == x # NULL /\ n[x].color = RB_RED

\* rb_insert_color that only paints the root black (line 472), without the loop
rb_insert_color_off(T, rbn) == [T EXCEPT !.n[T.rbt].color = RB_BLACK]

RECURSIVE rb_insert_color(_, _)
rb_insert_color(T, rbn) ==
    LET parent == T.n[rbn].parent
        gparent == T.n[parent].parent
    IN  IF parent # NULL /\ T.n[parent].color = RB_RED
        THEN IF parent = T.n[gparent].left
             THEN IF IsRed(T.n, T.n[gparent].right)
                  THEN rb_insert_color(
                           rb_insert_color_recolor(T, T.n[gparent].right, parent, gparent),
                           gparent)
                  ELSE IF T.n[parent].right = rbn
                       THEN rb_insert_color(
                                rb_insert_color_right(rb_rotate_left(T, parent), rbn, gparent),
                                parent)
                       ELSE rb_insert_color(rb_insert_color_right(T, parent, gparent), rbn)
             ELSE IF IsRed(T.n, T.n[gparent].left)
                  THEN rb_insert_color(
                           rb_insert_color_recolor(T, T.n[gparent].left, parent, gparent),
                           gparent)
                  ELSE IF T.n[parent].left = rbn
                       THEN rb_insert_color(
                                rb_insert_color_left(rb_rotate_right(T, parent), rbn, gparent),
                                parent)
                       ELSE rb_insert_color(rb_insert_color_left(T, parent, gparent), rbn)
        ELSE [T EXCEPT !.n[T.rbt].color = RB_BLACK]

\* the descent loop of rb_insert_node going left on a tie
RECURSIVE rb_insert_descend_tiesleft(_, _, _, _, _)
rb_insert_descend_tiesleft(n, tmp, parent, comp, dn) ==
    IF tmp # NULL
    THEN LET c == rb_compare(n[tmp].dnode, dn) IN
         rb_insert_descend_tiesleft(n, IF c >= 0 THEN n[tmp].left ELSE n[tmp].right, tmp,
                                    IF c >= 0 THEN 1 ELSE c, dn)
    ELSE [parent |-> parent, comp |-> comp]

\* the descent loop of rb_insert_node: the last node visited and the last comparison
RECURSIVE rb_insert_descend(_, _, _, _, _)
rb_insert_descend(n, tmp, parent, comp, dn) ==
    IF tmp # NULL
    THEN LET c == rb_compare(n[tmp].dnode, dn) IN
         rb_insert_descend(n, IF c > 0 THEN n[tmp].left ELSE n[tmp].right, tmp, c, dn)
    ELSE [parent |-> parent, comp |-> comp]

rb_insert_node(T, rbn) ==
    LET d == rb_insert_descend(T.n, T.rbt, NULL, 0, T.n[rbn].dnode)
        n1 == rb_set(T.n, rbn, d.parent)
        T2 == IF d.parent # NULL
              THEN IF d.comp > 0
                   THEN [n |-> [n1 EXCEPT ![d.parent].left = rbn], rbt |-> T.rbt]
                   ELSE [n |-> [n1 EXCEPT ![d.parent].right = rbn], rbt |-> T.rbt]
              ELSE [n |-> n1, rbt |-> rbn]
    IN  rb_insert_color(T2, rbn)

\* "if (rbn != NULL) RBN_COLOR(rbn) = RB_BLACK" closing rb_remove_color
rb_remove_color_end(T, rbn) ==
    IF rbn # NULL THEN [T EXCEPT !.n[rbn].color = RB_BLACK] ELSE T

\* "rbn = *rbt; break;" and the closing statement
rb_remove_color_root(T) == rb_remove_color_end(T, T.rbt)

IsBlack(n, x) == x = NULL \/ n[x].color = RB_BLACK

\* rb_remove_color, lines 511-519: tmp = RBN_RIGHT(parent) has a red right child
rb_remove_color_left_far(T, parent, tmp) ==
    rb_remove_color_root(
        rb_rotate_left(
            IF T.n[tmp].right # NULL
            THEN [T EXCEPT !.n[tmp].color = T.n[parent].color, !.n[parent].color = RB_BLACK,
                           !.n[T.n[tmp].right].color = RB_BLACK]
            ELSE [T EXCEPT !.n[tmp].color = T.n[parent].color, !.n[parent].color = RB_BLACK],
            parent))

\* rb_remove_color, lines 499-508: the red left child of tmp is rotated above it
rb_remove_color_left_near(T, tmp) ==
    rb_rotate_right(
        IF T.n[tmp].left # NULL
        THEN [T EXCEPT !.n[T.n[tmp].left].color = RB_BLACK, !.n[tmp].color = RB_RED]
        ELSE [T EXCEPT !.n[tmp].color = RB_RED],
        tmp)

\* rb_remove_color, lines 551-559, the mirror image
rb_remove_color_right_far(T, parent, tmp) ==
    rb_remove_color_root(
        rb_rotate_right(
            IF T.n[tmp].left # NULL
            THEN [T EXCEPT !.n[tmp].color = T.n[parent].color, !.n[parent].color = RB_BLACK,
                           !.n[T.n[tmp].left].color = RB_BLACK]
            ELSE [T EXCEPT !.n[tmp].color = T.n[parent].color, !.n[parent].color = RB_BLACK],
            parent))

\* rb_remove_color, lines 539-548
rb_remove_color_right_near(T, tmp) ==
    rb_rotate_left(
        IF T.n[tmp].right # NULL
        THEN [T EXCEPT !.n[T.n[tmp].right].color = RB_BLACK, !.n[tmp].color = RB_RED]
        ELSE [T EXCEPT !.n[tmp].color = RB_RED],
        tmp)

\* rb_remove_color, lines 484-488 and 523-527: a red sibling tmp is rotated above parent
rb_remove_color_left_red(T, parent, tmp) ==
    IF T.n[tmp].color = RB_RED
    THEN rb_rotate_left([T EXCEPT !.n = rb_set_blackred(T.n, tmp, parent)], parent)
    ELSE T

rb_remove_color_right_red(T, parent, tmp) ==
    IF T.n[tmp].color = RB_RED
    THEN rb_rotate_right([T EXCEPT !.n = rb_set_blackred(T.n, tmp, parent)], parent)
    ELSE T

RECURSIVE rb_remove_color(_, _, _)

\* lines 489-520, with tmp = RBN_RIGHT(parent) read again after the first rotation
rb_remove_color_left(T, parent, tmp) ==
    IF IsBlack(T.n, T.n[tmp].left) /\ IsBlack(T.n, T.n[tmp].right)
    THEN rb_remove_color([T EXCEPT !.n[tmp].color = RB_RED], T.n[parent].parent, parent)
    ELSE IF IsBlack(T.n, T.n[tmp].right)
         THEN rb_remove_color_left_far(rb_remove_color_left_near(T, tmp), parent,
                                       rb_remove_color_left_near(T, tmp).n[parent].right)
         ELSE rb_remove_color_left_far(T, parent, tmp)

\* lines 529-560
rb_remove_color_right(T, parent, tmp) ==
    IF IsBlack(T.n, T.n[tmp].left) /\ IsBlack(T.n, T.n[tmp].right)
    THEN rb_remove_color([T EXCEPT !.n[tmp].color = RB_RED], T.n[parent].parent, parent)
    ELSE IF IsBlack(T.n, T.n[tmp].left)
         THEN rb_remove_color_right_far(rb_remove_color_right_near(T, tmp), parent,
                                        rb_remove_color_right_near(T, tmp).n[parent].left)
         ELSE rb_remove_color_right_far(T, parent, tmp)

rb_remove_color(T, parent, rbn) ==
    IF (rbn = NULL \/ T.n[rbn].color = RB_BLACK) /\ rbn # T.rbt /\ parent # NULL
    THEN IF T.n[parent].left = rbn
         THEN rb_remove_color_left(
                  rb_remove_color_left_red(T, parent, T.n[parent].right), parent,
                  rb_remove_color_left_red(T, parent, T.n[parent].right).n[parent].right)
         ELSE rb_remove_color_right(
                  rb_remove_color_right_red(T, parent, T.n[parent].left), parent,
                  rb_remove_color_right_red(T, parent, T.n[parent].left).n[parent].left)
    ELSE rb_remove_color_end(T, rbn)

\* "while ((tmp = RBN_LEFT(rbn)) != NULL) rbn = tmp"
RECURSIVE LeftMost(_, _)
LeftMost(n, rbn) == IF n[rbn].left # NULL THEN LeftMost(n, n[rbn].left) ELSE rbn

\* "while (RBN_RIGHT(rbn)) rbn = RBN_RIGHT(rbn)"
RECURSIVE RightMost(_, _)
RightMost(n, rbn) == IF n[rbn].right # NULL THEN RightMost(n, n[rbn].right) ELSE rbn

\* RBN_COPY as a copy of the whole struct, dnode included
RBN_COPY_struct(n, dst, src) == [n EXCEPT ![dst] = n[src]]

\* RBN_COPY(DST, SRC): parent, left, right and color; never dnode
RBN_COPY(n, dst, src) ==
    [n EXCEPT ![dst].parent = n[src].parent, ![dst].left = n[src].left,
              ![dst].right = n[src].right, ![dst].color = n[src].color]

\* "if (parent) { if (RBN_LEFT(parent) == x) ... = y; else ... = y; } else *rbt = y"
Replace(T, p, x, y) ==
    IF p # NULL
    THEN IF T.n[p].left = x
         THEN [T EXCEPT !.n[p].left = y]
         ELSE [T EXCEPT !.n[p].right = y]
    ELSE [T EXCEPT !.rbt = y]

\* rb_remove, lines 597-608 and 636-647: child takes the place of rbn
rb_remove_detach(T, rbn, child) ==
    Replace(IF child # NULL THEN [T EXCEPT !.n[child].parent = T.n[rbn].parent] ELSE T,
            T.n[rbn].parent, rbn, child)

\* rb_remove, lines 625-628: the children of old get rbn as parent
rb_remove_adopt(T, old, rbn) ==
    IF T.n[old].right # NULL
    THEN [T EXCEPT !.n[T.n[old].left].parent = rbn, !.n[T.n[old].right].parent = rbn]
    ELSE [T EXCEPT !.n[T.n[old].left].parent = rbn]

\* rb_remove, lines 612-628: the successor rbn takes the place of old
rb_remove_swap(T, old, rbn) ==
    rb_remove_adopt(
        Replace([T EXCEPT !.n = RBN_COPY(T.n, rbn, old)], T.n[old].parent, old, rbn),
        old, rbn)

\* rb_remove with the fix-up run for a red node instead of a black one
rb_remove_fix_red(T, parent, child, color) ==
    IF color = RB_RED THEN rb_remove_color(T, parent, child) ELSE T

\* rb_remove, lines 648-651
rb_remove_fix(T, parent, child, color) ==
    IF color = RB_BLACK THEN rb_remove_color(T, parent, child) ELSE T

\* rb_remove of a node with two children done by handing the dnode of the successor
\* rbn to old and taking rbn out of the tree
rb_remove_two_dnode(T, old, rbn) ==
    rb_remove_fix(
        rb_remove_detach([T EXCEPT !.n[old].dnode = T.n[rbn].dnode], rbn, T.n[rbn].right),
        T.n[rbn].parent,
        T.n[rbn].right,
        T.n[rbn].color)

\* rb_remove, lines 589-630: old has two children, rbn is its in-order successor
rb_remove_two(T, old, rbn) ==
    rb_remove_fix(
        rb_remove_swap(rb_remove_detach(T, rbn, T.n[rbn].right), old, rbn),
        IF T.n[rbn].parent = old THEN rbn ELSE T.n[rbn].parent,
        T.n[rbn].right,
        T.n[rbn].color)

\* rb_remove, lines 633-651: old has at most the one child
rb_remove_one(T, old, child) ==
    rb_remove_fix(rb_remove_detach(T, old, child), T.n[old].parent, child, T.n[old].color)

\* rb_remove: the tree without old; the members of old itself are left as they were
rb_remove(T, old) ==
    IF T.n[old].left = NULL
    THEN rb_remove_one(T, old, T.n[old].right)
    ELSE IF T.n[old].right = NULL
         THEN rb_remove_one(T, old, T.n[old].left)
         ELSE rb_remove_two(T, old, LeftMost(T.n, T.n[old].right))

\* rb_next that takes the right child itself instead of the leftmost node under it
rb_next_child(n, rbn) ==
    IF n[rbn].right # NULL THEN n[rbn].right
    ELSE IF n[rbn].parent # NULL /\ rbn = n[n[rbn].parent].left THEN n[rbn].parent
    ELSE NULL

\* The values that tmp takes in rb_remove_color where its members are read: at lines
\* 483 and 523, and again after each rotation (lines 487, 508, 527, 548).  The walk
\* ends at a NULL, which the code would dereference.
RECURSIVE rb_remove_color_tmps(_, _, _)

\* lines 489-520, tmp read again after the first rotation
rb_remove_color_tmps_left(T, parent, tmp) ==
    IF tmp = NULL THEN {NULL}
    ELSE IF IsBlack(T.n, T.n[tmp].left) /\ IsBlack(T.n, T.n[tmp].right)
    THEN {tmp} \cup rb_remove_color_tmps([T EXCEPT !.n[tmp].color = RB_RED],
                                         T.n[parent].parent, parent)
    ELSE IF IsBlack(T.n, T.n[tmp].right)
         THEN {tmp, rb_remove_color_left_near(T, tmp).n[parent].right}
         ELSE {tmp}

\* lines 529-560
rb_remove_color_tmps_right(T, parent, tmp) ==
    IF tmp = NULL THEN {NULL}
    ELSE IF IsBlack(T.n, T.n[tmp].left) /\ IsBlack(T.n, T.n[tmp].right)
    THEN {tmp} \cup rb_remove_color_tmps([T EXCEPT !.n[tmp].color = RB_RED],
                                         T.n[parent].parent, parent)
    ELSE IF IsBlack(T.n, T.n[tmp].left)
         THEN {tmp, rb_remove_color_right_near(T, tmp).n[parent].left}
         ELSE {tmp}

rb_remove_color_tmps(T, parent, rbn) ==
    IF (rbn = NULL \/ T.n[rbn].color = RB_BLACK) /\ rbn # T.rbt /\ parent # NULL
    THEN IF T.n[parent].left = rbn
         THEN IF T.n[parent].right = NULL THEN {NULL}
              ELSE {T.n[parent].right} \cup
                   rb_remove_color_tmps_left(
                       rb_remove_color_left_red(T, parent, T.n[parent].right), parent,
                       rb_remove_color_left_red(T, parent, T.n[parent].right).n[parent].right)
         ELSE IF T.n[parent].left = NULL THEN {NULL}
              ELSE {T.n[parent].left} \cup
                   rb_remove_color_tmps_right(
                       rb_remove_color_right_red(T, parent, T.n[parent].left), parent,
                       rb_remove_color_right_red(T, parent, T.n[parent].left).n[parent].left)
    ELSE {}

\* the test of line 649 taken for a red node
rb_remove_color_called_red(color) == color = RB_RED

\* rb_remove, line 649: rb_remove_color is called for a black node
rb_remove_color_called(color) == color = RB_BLACK

\* rb_remove, lines 648-651, for the values of tmp
rb_remove_fix_tmps(T, parent, child, color) ==
    IF rb_remove_color_called(color) THEN rb_remove_color_tmps(T, parent, child) ELSE {}

\* rb_remove(rbt, old) up to the label color: the tree with old taken out, and the
\* parent, child and color that rb_remove_color is called with
rb_remove_color_args(T, old) ==
    IF T.n[old].left = NULL
    THEN [T |-> rb_remove_detach(T, old, T.n[old].right), parent |-> T.n[old].parent,
          child |-> T.n[old].right, color |-> T.n[old].color]
    ELSE IF T.n[old].right = NULL
         THEN [T |-> rb_remove_detach(T, old, T.n[old].left), parent |-> T.n[old].parent,
               child |-> T.n[old].left, color |-> T.n[old].color]
         ELSE [T |-> rb_remove_swap(
                         rb_remove_detach(T, LeftMost(T.n, T.n[old].right),
                                          T.n[LeftMost(T.n, T.n[old].right)].right),
                         old, LeftMost(T.n, T.n[old].right)),
               parent |-> IF T.n[LeftMost(T.n, T.n[old].right)].parent = old
                          THEN LeftMost(T.n, T.n[old].right)
                          ELSE T.n[LeftMost(T.n, T.n[old].right)].parent,
               child |-> T.n[LeftMost(T.n, T.n[old].right)].right,
               color |-> T.n[LeftMost(T.n, T.n[old].right)].color]

\* rb_remove(rbt, old), for the values of tmp that its rb_remove_color reads
rb_remove_tmps(T, old) ==
    rb_remove_fix_tmps(rb_remove_color_args(T, old).T, rb_remove_color_args(T, old).parent,
                       rb_remove_color_args(T, old).child, rb_remove_color_args(T, old).color)

\* "while (RBN_PARENT(rbn) && rbn == RBN_LEFT(RBN_PARENT(rbn))) rbn = RBN_PARENT(rbn)"
RECURSIVE ClimbFromLeft(_, _)
ClimbFromLeft(n, rbn) ==
    IF n[rbn].parent # NULL /\ rbn = n[n[rbn].parent].left
    THEN ClimbFromLeft(n, n[rbn].parent)
    ELSE rbn

RECURSIVE ClimbFromRight(_, _)
ClimbFromRight(n, rbn) ==
    IF n[rbn].parent # NULL /\ rbn = n[n[rbn].parent].right
    THEN ClimbFromRight(n, n[rbn].parent)
    ELSE rbn

rb_prev(n, rbn) ==
    IF n[rbn].left # NULL
    THEN RightMost(n, n[rbn].left)
    ELSE IF n[rbn].parent # NULL /\ rbn = n[n[rbn].parent].right
         THEN n[rbn].parent
         ELSE n[ClimbFromLeft(n, rbn)].parent

rb_next(n, rbn) ==
    IF n[rbn].right # NULL
    THEN LeftMost(n, n[rbn].right)
    ELSE IF n[rbn].parent # NULL /\ rbn = n[n[rbn].parent].left
         THEN n[rbn].parent
         ELSE n[ClimbFromRight(n, rbn)].parent

\* the scan of the predecessors taking the first node that compares equal
RECURSIVE rb_find_prevs_equal(_, _, _)
rb_find_prevs_equal(n, iter, target) ==
    IF iter = NULL THEN NULL
    ELSE IF rb_compare(n[iter].dnode, target) # 0 THEN NULL
    ELSE iter

\* "for (iter = rb_prev(pivot); iter; iter = rb_prev(iter))" of rb_find
RECURSIVE rb_find_prevs(_, _, _)
rb_find_prevs(n, iter, target) ==
    IF iter = NULL THEN NULL
    ELSE IF rb_compare(n[iter].dnode, target) # 0 THEN NULL
    ELSE IF n[iter].dnode = target THEN iter
    ELSE rb_find_prevs(n, rb_prev(n, iter), target)

\* "for (iter = rb_next(pivot); iter; iter = rb_next(iter))" of rb_find
RECURSIVE rb_find_nexts(_, _, _)
rb_find_nexts(n, iter, target) ==
    IF iter = NULL THEN NULL
    ELSE IF rb_compare(n[iter].dnode, target) # 0 THEN NULL
    ELSE IF n[iter].dnode = target THEN iter
    ELSE rb_find_nexts(n, rb_next(n, iter), target)

\* the descent of rb_find without the scan of the successors
RECURSIVE rb_find_descend_prevs(_, _, _)
rb_find_descend_prevs(n, iter, target) ==
    LET comp == rb_compare(n[iter].dnode, target)
        down == IF comp > 0 THEN n[iter].left ELSE n[iter].right
    IN  IF comp # 0
        THEN IF down # NULL THEN rb_find_descend_prevs(n, down, target) ELSE NULL
        ELSE IF n[iter].dnode = target
             THEN iter
             ELSE rb_find_prevs(n, rb_prev(n, iter), target)

\* the do-while descent of rb_find
RECURSIVE rb_find_descend(_, _, _)
rb_find_descend(n, iter, target) ==
    LET comp == rb_compare(n[iter].dnode, target)
        down == IF comp > 0 THEN n[iter].left ELSE n[iter].right
    IN  IF comp # 0
        THEN IF down # NULL THEN rb_find_descend(n, down, target) ELSE NULL
        ELSE IF n[iter].dnode = target
             THEN iter
             ELSE LET p == rb_find_prevs(n, rb_prev(n, iter), target) IN
                  IF p # NULL THEN p ELSE rb_find_nexts(n, rb_next(n, iter), target)

rb_find(n, rbt, target) ==
    IF n[rbt].dnode = target THEN rbt ELSE rb_find_descend(n, rbt, target)

\* rb_iter_traversal: descend to a node without children, detach it from its parent
RECURSIVE rb_iter_leaf(_, _)
rb_iter_leaf(n, iter) ==
    IF n[iter].left # NULL THEN rb_iter_leaf(n, n[iter].left)
    ELSE IF n[iter].right # NULL THEN rb_iter_leaf(n, n[iter].right)
    ELSE iter

\* rb_iter_traversal without the clearing of the parent's link (lines 305-309)
rb_iter_traversal_keeplink(n, current_state) ==
    IF current_state = NULL
    THEN [n |-> n, node |-> NULL, next_state |-> NULL]
    ELSE [n |-> n, node |-> rb_iter_leaf(n, current_state),
          next_state |-> n[rb_iter_leaf(n, current_state)].parent]

rb_iter_traversal(n, current_state) ==
    IF current_state = NULL
    THEN [n |-> n, node |-> NULL, next_state |-> NULL]
    ELSE LET iter == rb_iter_leaf(n, current_state)
             parent == n[iter].parent
             n1 == IF parent # NULL /\ n[parent].left = iter
                   THEN [n EXCEPT ![parent].left = NULL]
                   ELSE IF parent # NULL /\ n[parent].right = iter
                        THEN [n EXCEPT ![parent].right = NULL]
                        ELSE n
         IN  [n |-> n1, node |-> iter, next_state |-> parent]

\* rb_free_node without the call of free
rb_free_node_leak(M, rbn) == M

\* rb_free_node: the memory is returned (its contents no longer matter)
rb_free_node(M, rbn) ==
    IF rbn = NULL THEN M
    ELSE [n |-> [M.n EXCEPT ![rbn] = ZeroNode], live |-> M.live \ {rbn}]

\* lyds_free_tree on memory M = [n, live]
RECURSIVE lyds_free_loop(_, _)
lyds_free_loop(M, state) ==
    LET it == rb_iter_traversal(M.n, state) IN
    IF it.node = NULL THEN M
    ELSE lyds_free_loop(rb_free_node([n |-> it.n, live |-> M.live], it.node), it.next_state)

lyds_free_tree(M, rbt) == lyds_free_loop(M, rbt)

\* ------------------------------------------------ sibling list primitives
IndexOf(s, x) == CHOOSE i \in 1..Len(s) : s[i] = x

InSeq(s, x) == \E i \in 1..Len(s) : s[i] = x

\* lyd_insert_after_node(sibling, node)
lyd_insert_after_node(s, sibling, nd) ==
    LET i == IndexOf(s, sibling) IN SubSeq(s, 1, i) \o <<nd>> \o SubSeq(s, i + 1, Len(s))

\* lyd_insert_before_node(sibling, node)
lyd_insert_before_node(s, sibling, nd) ==
    LET i == IndexOf(s, sibling) IN SubSeq(s, 1, i - 1) \o <<nd>> \o SubSeq(s, i, Len(s))

\* the caller's unlink of node from the sibling list
lyd_unlink_ignore_lyds(s, nd) == SelectSeq(s, LAMBDA x : x # nd)

\* node->next, NULL after the last sibling
NextSibling(s, d) ==
    LET i == IndexOf(s, d) IN IF i < Len(s) THEN s[i + 1] ELSE NULL

\* the run: the instances of the sorted (leaf-)list, in list order
Run(s) == SelectSeq(s, LAMBDA x : x \in DNodes)

\* LYD_NODE_IS_ALONE(NODE): NODE is the only instance of its schema among its siblings
LYD_NODE_IS_ALONE(s, d) ==
    ~InSeq(s, d) \/ Len(SelectSeq(s, LAMBDA x : SchemaOf(x) = SchemaOf(d))) = 1

\* ------------------------------------------------------------- metadata
RemoveAt(q, i) == SubSeq(q, 1, i - 1) \o SubSeq(q, i + 1, Len(q))

\* lyds_get_rb_tree(leader, &meta): the first 'lyds_tree' record of leader and its rbt
lyds_get_rb_tree(mt, d) ==
    IF Len(mt[d]) > 0
    THEN [rbt |-> mt[d][1], meta |-> [d |-> d, i |-> 1]]
    ELSE [rbt |-> NULL, meta |-> NoMeta]

\* RBT_GET(META, RBT)
RBT_GET(mt, m) == mt[m.d][m.i]

\* RBT_SET(META, RBT)
RBT_SET(mt, m, rbt) == [mt EXCEPT ![m.d][m.i] = rbt]

\* lyd_create_meta(leader, &meta, ...): a new record whose rbt is NULL, appended
lyd_create_meta(mt, d) == [mt EXCEPT ![d] = Append(@, NULL)]

\* lyds_create_metadata without the check for a record that is already there
lyds_create_metadata_again(mt, d) ==
    IF ~modyang
    THEN [ret |-> LY_EINT, mt |-> mt, meta |-> NoMeta]
    ELSE LET m1 == lyd_create_meta(mt, d) IN
         [ret |-> LY_SUCCESS, mt |-> m1, meta |-> [d |-> d, i |-> Len(m1[d])]]

\* lyds_create_metadata(leader, &meta_p): what it returns, the metadata, and what it
\* stores in *meta_p (nothing when the record exists or the 'yang' module is missing)
lyds_create_metadata(mt, d) ==
    IF lyds_get_rb_tree(mt, d).meta # NoMeta
    THEN [ret |-> LY_SUCCESS, mt |-> mt, meta |-> NoMeta]
    ELSE IF ~modyang
         THEN [ret |-> LY_EINT, mt |-> mt, meta |-> NoMeta]
         ELSE LET m1 == lyd_create_meta(mt, d) IN
              [ret |-> LY_SUCCESS, mt |-> m1, meta |-> [d |-> d, i |-> Len(m1[d])]]

\* lyds_move_meta that makes a new record on dst in place of the one unlinked
lyds_move_meta_fresh(mt, dst, m) ==
    LET m1 == [mt EXCEPT ![m.d] = RemoveAt(@, m.i)]
        m2 == [m1 EXCEPT ![dst] = Append(@, NULL)]
    IN  [mt |-> m2, meta |-> [d |-> dst, i |-> Len(m2[dst])]]

\* lyds_move_meta without lyd_unlink_meta_single: the record is copied
lyds_move_meta_copy(mt, dst, m) ==
    LET m2 == [mt EXCEPT ![dst] = Append(@, mt[m.d][m.i])]
    IN  [mt |-> m2, meta |-> [d |-> dst, i |-> Len(m2[dst])]]

\* lyds_move_meta(dst, meta): lyd_unlink_meta_single, then lyd_insert_meta at the end
lyds_move_meta(mt, dst, m) ==
    LET r == mt[m.d][m.i]
        m1 == [mt EXCEPT ![m.d] = RemoveAt(@, m.i)]
        m2 == [m1 EXCEPT ![dst] = Append(@, r)]
    IN  [mt |-> m2, meta |-> [d |-> dst, i |-> Len(m2[dst])]]

\* lyd_free_meta_single(meta): the record is unlinked and its value freed, which tears
\* the tree down (lyds_free_tree); S = [mt, n, live]
lyd_free_meta_single(S, m) ==
    IF m = NoMeta THEN S
    ELSE LET M == lyds_free_tree([n |-> S.n, live |-> S.live], S.mt[m.d][m.i]) IN
         [mt |-> [S.mt EXCEPT ![m.d] = RemoveAt(@, m.i)], n |-> M.n, live |-> M.live]

\* ------------------------------------------------------------ allocation
\* calloc may return any free address, and the code never orders addresses: the model
\* hands out the first free one of nd, nd + |AllD|, nd + 2|AllD|, ...
FreshAddr(lv, nd) ==
    CHOOSE a \in RbIds \ lv :
        /\ (a - nd) % (NumD + 3) = 0
        /\ \A b \in RbIds \ lv : (b - nd) % (NumD + 3) = 0 => a <= b

\* lyds_create_node(node, &rbn) when calloc succeeds; M = [n, live]
lyds_create_node(M, nd) ==
    LET a == FreshAddr(M.live, nd) IN
    [n |-> [M.n EXCEPT ![a] = [ZeroNode EXCEPT !.dnode = nd]], live |-> M.live \cup {a},
     rbn |-> a]

\* rb_insert(node, &rbt, &rbn) when calloc succeeds
rb_insert(M, rbt, nd) ==
    LET c == lyds_create_node(M, nd)
        T == rb_insert_node([n |-> c.n, rbt |-> rbt], c.rbn)
    IN  [n |-> T.n, rbt |-> T.rbt, live |-> c.live, rbn |-> c.rbn]

\* lyds_link_data_node with lyd_insert_before_node called where lyd_insert_after_node is
lyds_link_data_node_before(L, n, nd, rbn) ==
    LET prev == rb_prev(n, rbn) IN
    IF prev # NULL
    THEN [L EXCEPT !.sibs = lyd_insert_before_node(L.sibs, n[prev].dnode, n[rbn].dnode)]
    ELSE LET mv == lyds_move_meta(L.mt, nd, L.meta) IN
         [sibs |-> lyd_insert_before_node(L.sibs, L.leader, n[rbn].dnode),
          leader |-> nd, mt |-> mv.mt, meta |-> mv.meta]

\* lyds_link_data_node that makes node the leader wherever it is linked
lyds_link_data_node_leader(L, n, nd, rbn) ==
    LET prev == rb_prev(n, rbn) IN
    IF prev # NULL
    THEN [L EXCEPT !.sibs = lyd_insert_after_node(L.sibs, n[prev].dnode, n[rbn].dnode),
                   !.leader = nd]
    ELSE LET mv == lyds_move_meta(L.mt, nd, L.meta) IN
         [sibs |-> lyd_insert_before_node(L.sibs, L.leader, n[rbn].dnode),
          leader |-> nd, mt |-> mv.mt, meta |-> mv.meta]

\* lyds_link_data_node without the call of lyds_move_meta
lyds_link_data_node_nomove(L, n, nd, rbn) ==
    LET prev == rb_prev(n, rbn) IN
    IF prev # NULL
    THEN [L EXCEPT !.sibs = lyd_insert_after_node(L.sibs, n[prev].dnode, n[rbn].dnode)]
    ELSE [sibs |-> lyd_insert_before_node(L.sibs, L.leader, n[rbn].dnode),
          leader |-> nd, mt |-> L.mt, meta |-> L.meta]

\* lyds_link_data_node(&leader, node, root_meta, rbn); L = [sibs, leader, mt, meta]
lyds_link_data_node(L, n, nd, rbn) ==
    LET prev == rb_prev(n, rbn) IN
    IF prev # NULL
    THEN [L EXCEPT !.sibs = lyd_insert_after_node(L.sibs, n[prev].dnode, n[rbn].dnode)]
    ELSE LET mv == lyds_move_meta(L.mt, nd, L.meta) IN
         [sibs |-> lyd_insert_before_node(L.sibs, L.leader, n[rbn].dnode),
          leader |-> nd, mt |-> mv.mt, meta |-> mv.meta]

\* rb_remove_node without the closing RBT_SET
rb_remove_node_nostore(R, m, nd) ==
    IF R.rbt = NULL
    THEN [mt |-> R.mt, n |-> R.n, rbt |-> R.rbt, removed |-> NULL]
    ELSE LET rbn == rb_find(R.n, R.rbt, nd)
             T == rb_remove([n |-> R.n, rbt |-> R.rbt], rbn)
         IN  [mt |-> R.mt, n |-> T.n, rbt |-> T.rbt, removed |-> rbn]

\* rb_remove_node(root_meta, &rbt, node, &removed); R = [mt, n, rbt]
rb_remove_node(R, m, nd) ==
    IF R.rbt = NULL
    THEN [mt |-> R.mt, n |-> R.n, rbt |-> R.rbt, removed |-> NULL]
    ELSE LET rbn == rb_find(R.n, R.rbt, nd)
             T == rb_remove([n |-> R.n, rbt |-> R.rbt], rbn)
         IN  [mt |-> RBT_SET(R.mt, m, T.rbt), n |-> T.n, rbt |-> T.rbt, removed |-> rbn]

\* ------------------------------------------------------------------ Init
\* The sort values are an input.  Instances are interchangeable, so they are numbered
\* in the order of their values; g instances in a row share one value.
ValChoices == {[d \in DNodes |-> ((d - 1) \div g) + 1] : g \in 1..MaxGroup}

\* nothing is built and no operation is running
InitIdle ==
    /\ meta = [d \in AllD |-> <<>>]
    /\ rb = [a \in RbIds |-> ZeroNode]
    /\ live = {}
    /\ pc = "idle"
    /\ leader = NULL
    /\ node = NULL
    /\ l_rbt = NULL
    /\ l_meta = NoMeta
    /\ l_iter = NULL
    /\ l_rbn = NULL
    /\ l_state = NULL
    /\ ret = LY_SUCCESS
    /\ op = "none"
    /\ pre = NoPre

InitData ==
    /\ val \in ValChoices
    /\ modyang \in BOOLEAN
    /\ sibs \in {<<>>, <<OtherBefore, OtherAfter>>}
    /\ InitIdle

Init ==
    /\ InitData
    /\ arg = NoArg
    /\ result = NoResult

Locals == <<l_rbt, l_meta, l_iter>>

Snapshot == [sibs |-> sibs, meta |-> meta, rb |-> rb, live |-> live]

\* No operation is running, and none has failed: a caller that gets LY_EMEM gives the
\* edit up and the model follows it no further.
Ready == pc = "idle" /\ ret = LY_SUCCESS

\* --------------------------------------------------------------- callers
\* The first instance of the (leaf-)list is linked by the generic insertion: there is
\* no leader yet, lyds_insert is not called.
CallerInsertFirst(nd) ==
    /\ Ready
    /\ nd \in DNodes
    /\ Run(sibs) = <<>>
    /\ sibs' = IF InSeq(sibs, OtherBefore)
               THEN lyd_insert_after_node(sibs, OtherBefore, nd)
               ELSE <<nd>> \o sibs
    /\ leader' = nd
    /\ node' = nd
    /\ op' = "first"
    /\ UNCHANGED <<val, modyang, arg, result, l_rbn, l_state, meta, rb, live, pc, Locals, ret, pre>>

\* lyds_insert that builds the tree at every call
LydsInsert_rebuild(nd) ==
    /\ Ready
    /\ nd \in DNodes
    /\ ~InSeq(sibs, nd)
    /\ Run(sibs) # <<>>
    /\ LET ldr == Head(Run(sibs))
           own == lyds_get_rb_tree(meta, nd)
           S1 == lyd_free_meta_single([mt |-> meta, n |-> rb, live |-> live], own.meta)
           got == lyds_get_rb_tree(S1.mt, ldr)
           cr == lyds_create_metadata(S1.mt, ldr)
       IN  /\ leader' = ldr
           /\ node' = nd
           /\ rb' = S1.n
           /\ live' = S1.live
           /\ meta' = IF got.meta = NoMeta THEN cr.mt ELSE S1.mt
           /\ l_meta' = IF got.meta = NoMeta THEN cr.meta ELSE got.meta
           /\ l_rbt' = NULL
           /\ pc' = "build_leader"
    /\ op' = "insert"
    /\ pre' = Snapshot
    /\ UNCHANGED <<val, modyang, arg, result, l_rbn, l_state, sibs, l_iter, ret>>

\* lyds_insert without the clearing of node (lines 1027-1033)
LydsInsert_keepstale(nd) ==
    /\ Ready
    /\ nd \in DNodes
    /\ ~InSeq(sibs, nd)
    /\ Run(sibs) # <<>>
    /\ LET ldr == Head(Run(sibs))
           got == lyds_get_rb_tree(meta, ldr)
           cr == lyds_create_metadata(meta, ldr)
       IN  /\ leader' = ldr
           /\ node' = nd
           /\ meta' = IF got.meta = NoMeta THEN cr.mt ELSE meta
           /\ l_meta' = IF got.meta = NoMeta THEN cr.meta ELSE got.meta
           /\ l_rbt' = got.rbt
           /\ pc' = IF got.rbt = NULL THEN "build_leader" ELSE "rb_insert"
    /\ op' = "insert"
    /\ pre' = Snapshot
    /\ UNCHANGED <<val, modyang, arg, result, l_rbn, l_state, sibs, rb, live, l_iter, ret>>

\* ----------------------------------------------------------- lyds_insert
\* lines 1024-1047 up to the call of lyds_additionally_create_rb_tree
LydsInsert(nd) ==
    /\ Ready
    /\ nd \in DNodes
    /\ ~InSeq(sibs, nd)
    /\ Run(sibs) # <<>>
    /\ LET ldr == Head(Run(sibs))
           own == lyds_get_rb_tree(meta, nd)
           S1 == lyd_free_meta_single([mt |-> meta, n |-> rb, live |-> live], own.meta)
           got == lyds_get_rb_tree(S1.mt, ldr)
           cr == lyds_create_metadata(S1.mt, ldr)
       IN  /\ leader' = ldr
           /\ node' = nd
           /\ rb' = S1.n
           /\ live' = S1.live
           /\ meta' = IF got.meta = NoMeta THEN cr.mt ELSE S1.mt
           /\ l_meta' = IF got.meta = NoMeta THEN cr.meta ELSE got.meta
           /\ l_rbt' = got.rbt
           /\ pc' = IF got.rbt = NULL THEN "build_leader" ELSE "rb_insert"
    /\ op' = "insert"
    /\ pre' = Snapshot
    /\ UNCHANGED <<val, modyang, arg, result, l_rbn, l_state, sibs, l_iter, ret>>

\* lyds_additionally_create_rb_tree, lines 937-940: the node of the leader is the root
BuildLeader ==
    /\ pc = "build_leader"
    /\ LET c == lyds_create_node([n |-> rb, live |-> live], leader)
       IN  /\ rb' = c.n
           /\ live' = c.live
           /\ l_rbt' = c.rbn
    /\ l_iter' = NextSibling(sibs, leader)
    /\ pc' = "build_next"
    /\ UNCHANGED <<val, modyang, arg, result, l_rbn, l_state, sibs, meta, leader, node, l_meta, ret, op, pre>>

BuildMore == l_iter # NULL /\ SchemaOf(l_iter) = SchemaOf(leader)

\* lyds_additionally_create_rb_tree, lines 943-947: one iteration of the loop
BuildNext ==
    /\ pc = "build_next"
    /\ BuildMore
    /\ LET c == lyds_create_node([n |-> rb, live |-> live], l_iter)
           T == rb_insert_node([n |-> c.n, rbt |-> l_rbt], c.rbn)
       IN  /\ rb' = T.n
           /\ live' = c.live
           /\ l_rbt' = T.rbt
    /\ l_iter' = NextSibling(sibs, l_iter)
    /\ UNCHANGED <<val, modyang, arg, result, l_rbn, l_state, sibs, meta, pc, leader, node, l_meta, ret, op, pre>>

\* lyds_additionally_create_rb_tree, lines 949-952: the root is stored
BuildDone ==
    /\ pc = "build_next"
    /\ ~BuildMore
    /\ l_meta # NoMeta
    /\ meta' = RBT_SET(meta, l_meta, l_rbt)
    /\ pc' = "rb_insert"
    /\ UNCHANGED <<val, modyang, arg, result, l_rbn, l_state, sibs, rb, live, leader, node, Locals, ret, op, pre>>

\* lyds_additionally_create_rb_tree, line 950, with root_meta NULL: lyds_insert went on
\* after lyds_create_metadata failed.  RBT_SET stores through the null pointer, which
\* ends the process.
BuildDoneNullMeta ==
    /\ pc = "build_next"
    /\ ~BuildMore
    /\ l_meta = NoMeta
    /\ pc' = "crashed"
    /\ UNCHANGED <<val, modyang, arg, result, l_rbn, l_state, sibs, meta, rb, live, leader, node, Locals, ret, op, pre>>

\* lyds_insert, lines 1049-1057
LydsInsertFinish ==
    /\ pc = "rb_insert"
    /\ LET r == rb_insert([n |-> rb, live |-> live], l_rbt, node)
           L == lyds_link_data_node([sibs |-> sibs, leader |-> leader, mt |-> meta,
                                     meta |-> l_meta], r.n, node, r.rbn)
       IN  /\ rb' = r.n
           /\ live' = r.live
           /\ sibs' = L.sibs
           /\ leader' = L.leader
           /\ meta' = RBT_SET(L.mt, L.meta, r.rbt)
    /\ pc' = "idle"
    /\ ret' = LY_SUCCESS
    /\ l_rbt' = NULL
    /\ l_meta' = NoMeta
    /\ l_iter' = NULL
    /\ pre' = NoPre
    /\ UNCHANGED <<val, modyang, arg, result, l_rbn, l_state, node, op>>

\* calloc returns NULL in lyds_create_node: LY_CHECK_RET leaves lyds_insert at once
LydsInsertNoMem ==
    /\ \/ pc = "build_leader"
       \/ pc = "build_next" /\ BuildMore
       \/ pc = "rb_insert"
    /\ pc' = "idle"
    /\ ret' = LY_EMEM
    /\ l_rbt' = NULL
    /\ l_meta' = NoMeta
    /\ l_iter' = NULL
    /\ UNCHANGED <<val, modyang, arg, result, l_rbn, l_state, sibs, meta, rb, live, leader, node, op, pre>>

\* lyds_unlink without the test LYD_NODE_IS_ALONE(*leader)
LydsUnlink_always(nd) ==
    /\ Ready
    /\ InSeq(Run(sibs), nd)
    /\ LET ldr == Head(Run(sibs))
           got == lyds_get_rb_tree(meta, ldr)
       IN  /\ leader' = ldr
           /\ node' = nd
           /\ IF got.meta = NoMeta
              THEN /\ pc' = "caller_unlink"
                   /\ UNCHANGED <<meta, Locals>>
              ELSE /\ pc' = "rb_remove"
                   /\ l_rbt' = got.rbt
                   /\ l_iter' = NULL
                   /\ meta' = meta /\ l_meta' = got.meta
    /\ op' = "unlink"
    /\ pre' = Snapshot
    /\ UNCHANGED <<val, modyang, arg, result, l_rbn, l_state, sibs, rb, live, ret>>

\* lyds_unlink that also takes node out of the sibling list
LydsUnlink_unlinks(nd) ==
    /\ Ready
    /\ InSeq(Run(sibs), nd)
    /\ LET ldr == Head(Run(sibs))
           got == lyds_get_rb_tree(meta, ldr)
       IN  /\ leader' = ldr
           /\ node' = nd
           /\ pc' = "caller_unlink"
           /\ UNCHANGED <<meta, Locals>>
    /\ sibs' = lyd_unlink_ignore_lyds(sibs, nd)
    /\ op' = "unlink"
    /\ pre' = Snapshot
    /\ UNCHANGED <<val, modyang, arg, result, l_rbn, l_state, rb, live, ret>>

\* lyds_unlink without "if (*leader == node) lyds_move_meta(...)"
LydsUnlink_nomove(nd) ==
    /\ Ready
    /\ InSeq(Run(sibs), nd)
    /\ LET ldr == Head(Run(sibs))
           got == lyds_get_rb_tree(meta, ldr)
       IN  /\ leader' = ldr
           /\ node' = nd
           /\ IF got.meta = NoMeta \/ LYD_NODE_IS_ALONE(sibs, ldr)
              THEN /\ pc' = "caller_unlink"
                   /\ UNCHANGED <<meta, Locals>>
              ELSE /\ pc' = "rb_remove"
                   /\ l_rbt' = got.rbt
                   /\ l_iter' = NULL
                   /\ meta' = meta /\ l_meta' = got.meta
    /\ op' = "unlink"
    /\ pre' = Snapshot
    /\ UNCHANGED <<val, modyang, arg, result, l_rbn, l_state, sibs, rb, live, ret>>

\* ----------------------------------------------------------- lyds_unlink
\* lines 1066-1081
LydsUnlink(nd) ==
    /\ Ready
    /\ InSeq(Run(sibs), nd)
    /\ LET ldr == Head(Run(sibs))
           got == lyds_get_rb_tree(meta, ldr)
           mv == lyds_move_meta(meta, NextSibling(sibs, ldr), got.meta)
       IN  /\ leader' = ldr
           /\ node' = nd
           /\ IF got.meta = NoMeta \/ LYD_NODE_IS_ALONE(sibs, ldr)
              THEN /\ pc' = "caller_unlink"
                   /\ UNCHANGED <<meta, Locals>>
              ELSE /\ pc' = "rb_remove"
                   /\ l_rbt' = got.rbt
                   /\ l_iter' = NULL
                   /\ IF ldr = nd
                      THEN meta' = mv.mt /\ l_meta' = mv.meta
                      ELSE meta' = meta /\ l_meta' = got.meta
    /\ op' = "unlink"
    /\ pre' = Snapshot
    /\ UNCHANGED <<val, modyang, arg, result, l_rbn, l_state, sibs, rb, live, ret>>

\* lyds_unlink without the calls of rb_remove_node and rb_free_node
LydsUnlinkRemove_skip ==
    /\ pc = "rb_remove"
    /\ pc' = "caller_unlink"
    /\ l_rbt' = NULL
    /\ l_meta' = NoMeta
    /\ l_iter' = NULL
    /\ UNCHANGED <<val, modyang, arg, result, l_rbn, l_state, sibs, meta, rb, live, leader, node, ret, op, pre>>

\* lines 1083-1084
LydsUnlinkRemove ==
    /\ pc = "rb_remove"
    /\ LET r == rb_remove_node([mt |-> meta, n |-> rb, rbt |-> l_rbt], l_meta, node)
           M == rb_free_node([n |-> r.n, live |-> live], r.removed)
       IN  /\ meta' = r.mt
           /\ rb' = M.n
           /\ live' = M.live
    /\ pc' = "caller_unlink"
    /\ l_rbt' = NULL
    /\ l_meta' = NoMeta
    /\ l_iter' = NULL
    /\ UNCHANGED <<val, modyang, arg, result, l_rbn, l_state, sibs, leader, node, ret, op, pre>>

\* after lyds_unlink returned, the caller takes node out of the sibling list
CallerUnlink ==
    /\ pc = "caller_unlink"
    /\ sibs' = lyd_unlink_ignore_lyds(sibs, node)
    /\ pc' = "idle"
    /\ pre' = NoPre
    /\ UNCHANGED <<val, modyang, arg, result, l_rbn, l_state, meta, rb, live, leader, node, Locals, ret, op>>

\* ---------------------------------------------------- lyds_free_metadata
LydsFreeMetadata(nd) ==
    /\ Ready
    /\ nd \in DNodes
    /\ LET got == lyds_get_rb_tree(meta, nd)
           S1 == lyd_free_meta_single([mt |-> meta, n |-> rb, live |-> live], got.meta)
       IN  /\ meta' = S1.mt
           /\ rb' = S1.n
           /\ live' = S1.live
    /\ node' = nd
    /\ op' = "free"
    /\ UNCHANGED <<val, modyang, arg, result, l_rbn, l_state, sibs, pc, leader, Locals, ret, pre>>

\* --------------------------------------------------- lyds_create_metadata
\* the public call on an instance that is the first of its schema (the assert of
\* line 963), with meta_p NULL
LydsCreateMetadata(nd) ==
    /\ Ready
    /\ Run(sibs) # <<>>
    /\ nd = Head(Run(sibs))
    /\ LET cr == lyds_create_metadata(meta, nd)
       IN  /\ meta' = cr.mt
           /\ ret' = cr.ret
    /\ leader' = nd
    /\ node' = nd
    /\ op' = "create"
    /\ pre' = Snapshot
    /\ UNCHANGED <<val, modyang, arg, result, l_rbn, l_state, sibs, rb, live, pc, Locals>>

\* ------------------------------------------------------- turns of the loops
\* Each loop is followed turn by turn and its turns are counted; -1 stands for a loop
\* that is still running after the f turns it was given.
Add1(x) == IF x < 0 THEN -1 ELSE x + 1

Sum(x, y) == IF x < 0 \/ y < 0 THEN -1 ELSE x + y

\* rb_insert_node, lines 668-699: rbn is linked under the node the descent ended at
rb_insert_node_link(T, rbn) ==
    LET d == rb_insert_descend(T.n, T.rbt, NULL, 0, T.n[rbn].dnode)
        n1 == rb_set(T.n, rbn, d.parent)
    IN  IF d.parent # NULL
        THEN IF d.comp > 0
             THEN [n |-> [n1 EXCEPT ![d.parent].left = rbn], rbt |-> T.rbt]
             ELSE [n |-> [n1 EXCEPT ![d.parent].right = rbn], rbt |-> T.rbt]
        ELSE [n |-> n1, rbt |-> rbn]

\* the descent of rb_insert_node, lines 672-681
RECURSIVE rb_insert_descend_turns(_, _, _, _)
rb_insert_descend_turns(n, tmp, dn, f) ==
    IF tmp = NULL THEN 0
    ELSE IF f = 0 THEN -1
    ELSE Add1(rb_insert_descend_turns(
                  n, IF rb_compare(n[tmp].dnode, dn) > 0 THEN n[tmp].left ELSE n[tmp].right,
                  dn, f - 1))

\* the condition of the while loop of rb_insert_color, line 429
rb_insert_color_continues(T, rbn) ==
    T.n[rbn].parent # NULL /\ T.n[T.n[rbn].parent].color = RB_RED

\* a turn of the loop of rb_insert_color that ends where it began
rb_insert_color_body_stay(T, rbn) == [T |-> T, rbn |-> rbn]

\* one turn of the while loop of rb_insert_color, lines 430-469: the tree and rbn
\* after it
rb_insert_color_body(T, rbn) ==
    LET parent == T.n[rbn].parent
        gparent == T.n[parent].parent
    IN  IF parent = T.n[gparent].left
        THEN IF IsRed(T.n, T.n[gparent].right)
             THEN [T |-> rb_insert_color_recolor(T, T.n[gparent].right, parent, gparent),
                   rbn |-> gparent]
             ELSE IF T.n[parent].right = rbn
                  THEN [T |-> rb_insert_color_right(rb_rotate_left(T, parent), rbn, gparent),
                        rbn |-> parent]
                  ELSE [T |-> rb_insert_color_right(T, parent, gparent), rbn |-> rbn]
        ELSE IF IsRed(T.n, T.n[gparent].left)
             THEN [T |-> rb_insert_color_recolor(T, T.n[gparent].left, parent, gparent),
                   rbn |-> gparent]
             ELSE IF T.n[parent].left = rbn
                  THEN [T |-> rb_insert_color_left(rb_rotate_right(T, parent), rbn, gparent),
                        rbn |-> parent]
                  ELSE [T |-> rb_insert_color_left(T, parent, gparent), rbn |-> rbn]

RECURSIVE rb_insert_color_turns(_, _, _)
rb_insert_color_turns(T, rbn, f) ==
    IF ~rb_insert_color_continues(T, rbn) THEN 0
    ELSE IF f = 0 THEN -1
    ELSE Add1(rb_insert_color_turns(rb_insert_color_body(T, rbn).T,
                                    rb_insert_color_body(T, rbn).rbn, f - 1))

\* the while loop of rb_remove_color, lines 480-562
RECURSIVE rb_remove_color_turns(_, _, _, _)

\* lines 489-496 and 529-536 go around again, lines 497-520 and 537-560 break
rb_remove_color_turns_side(T, parent, tmp, f) ==
    IF IsBlack(T.n, T.n[tmp].left) /\ IsBlack(T.n, T.n[tmp].right)
    THEN Add1(rb_remove_color_turns([T EXCEPT !.n[tmp].color = RB_RED], T.n[parent].parent,
                                    parent, f - 1))
    ELSE 1

rb_remove_color_turns(T, parent, rbn, f) ==
    IF ~((rbn = NULL \/ T.n[rbn].color = RB_BLACK) /\ rbn # T.rbt /\ parent # NULL) THEN 0
    ELSE IF f = 0 THEN -1
    ELSE IF T.n[parent].left = rbn
         THEN rb_remove_color_turns_side(
                  rb_remove_color_left_red(T, parent, T.n[parent].right), parent,
                  rb_remove_color_left_red(T, parent, T.n[parent].right).n[parent].right, f)
         ELSE rb_remove_color_turns_side(
                  rb_remove_color_right_red(T, parent, T.n[parent].left), parent,
                  rb_remove_color_right_red(T, parent, T.n[parent].left).n[parent].left, f)

\* rb_remove: the turns of its rb_remove_color, none when it is not called
rb_remove_turns(T, old, f) ==
    IF rb_remove_color_called(rb_remove_color_args(T, old).color)
    THEN rb_remove_color_turns(rb_remove_color_args(T, old).T,
                               rb_remove_color_args(T, old).parent,
                               rb_remove_color_args(T, old).child, f)
    ELSE 0

\* "while ((tmp = RBN_LEFT(rbn)) != NULL) rbn = tmp" of rb_remove, lines 590-592
RECURSIVE rb_remove_successor_turns(_, _, _)
rb_remove_successor_turns(n, rbn, f) ==
    IF n[rbn].left = NULL THEN 0
    ELSE IF f = 0 THEN -1
    ELSE Add1(rb_remove_successor_turns(n, n[rbn].left, f - 1))

\* the scans of rb_find, lines 801-816
RECURSIVE rb_find_prevs_turns(_, _, _, _)
rb_find_prevs_turns(n, iter, target, f) ==
    IF iter = NULL THEN 0
    ELSE IF f = 0 THEN -1
    ELSE IF rb_compare(n[iter].dnode, target) # 0 \/ n[iter].dnode = target THEN 1
    ELSE Add1(rb_find_prevs_turns(n, rb_prev(n, iter), target, f - 1))

RECURSIVE rb_find_nexts_turns(_, _, _, _)
rb_find_nexts_turns(n, iter, target, f) ==
    IF iter = NULL THEN 0
    ELSE IF f = 0 THEN -1
    ELSE IF rb_compare(n[iter].dnode, target) # 0 \/ n[iter].dnode = target THEN 1
    ELSE Add1(rb_find_nexts_turns(n, rb_next(n, iter), target, f - 1))

\* the rb_node at which the do-while loop of rb_find, lines 789-823, meets a value
\* equal to the target's, NULL when it meets none
RECURSIVE rb_find_pivot(_, _, _)
rb_find_pivot(n, iter, target) ==
    IF rb_compare(n[iter].dnode, target) > 0
    THEN IF n[iter].left # NULL THEN rb_find_pivot(n, n[iter].left, target) ELSE NULL
    ELSE IF rb_compare(n[iter].dnode, target) < 0
    THEN IF n[iter].right # NULL THEN rb_find_pivot(n, n[iter].right, target) ELSE NULL
    ELSE iter

\* the turns of the do-while loop of rb_find
RECURSIVE rb_find_descend_turns(_, _, _, _)
rb_find_descend_turns(n, iter, target, f) ==
    IF f = 0 THEN -1
    ELSE IF rb_compare(n[iter].dnode, target) > 0 /\ n[iter].left # NULL
    THEN Add1(rb_find_descend_turns(n, n[iter].left, target, f - 1))
    ELSE IF rb_compare(n[iter].dnode, target) < 0 /\ n[iter].right # NULL
    THEN Add1(rb_find_descend_turns(n, n[iter].right, target, f - 1))
    ELSE 1

\* rb_find returns before the loop when the root is the target's rb_node, line 779
rb_find_loop_turns(n, rbt, target, f) ==
    IF n[rbt].dnode = target THEN 0 ELSE rb_find_descend_turns(n, rbt, target, f)

\* the turns of the two for loops of rb_find, which run when the equal rb_node met is
\* not the target's; the second runs when the first has not returned
rb_find_scan_turns(n, pivot, target, f) ==
    IF pivot = NULL \/ n[pivot].dnode = target THEN 0
    ELSE IF rb_find_prevs(n, rb_prev(n, pivot), target) # NULL
    THEN rb_find_prevs_turns(n, rb_prev(n, pivot), target, f)
    ELSE Sum(rb_find_prevs_turns(n, rb_prev(n, pivot), target, f),
             rb_find_nexts_turns(n, rb_next(n, pivot), target, f))

\* the loop of lyds_free_tree, lines 348-350
RECURSIVE lyds_free_tree_turns(_, _, _)
lyds_free_tree_turns(M, state, f) ==
    IF rb_iter_traversal(M.n, state).node = NULL THEN 0
    ELSE IF f = 0 THEN -1
    ELSE Add1(lyds_free_tree_turns(
                  rb_free_node([n |-> rb_iter_traversal(M.n, state).n, live |-> M.live],
                               rb_iter_traversal(M.n, state).node),
                  rb_iter_traversal(M.n, state).next_state, f - 1))

\* ------------------------------------------------------------ serializers
\* the name of the metadata that lyds_create_metadata creates
RB_NAME == "lyds_tree"

\* the metadata instances of a data node, each with its name and its value
MetaOf(mt, d) == [i \in 1..Len(mt[d]) |-> [name |-> RB_NAME, value |-> mt[d][i]]]

\* a serializer that emits every metadata instance
lyd_print_meta_all(mt, d) == MetaOf(mt, d)

\* what a serializer emits of the metadata of a data node: the instances named
\* RB_NAME are left out
lyd_print_meta(mt, d) == SelectSeq(MetaOf(mt, d), LAMBDA m : m.name # RB_NAME)

\* the exported representation of the siblings: each data node with its value and
\* the metadata emitted for it
lyd_print_all(s, mt) ==
    [i \in 1..Len(s) |->
        [schema |-> SchemaOf(s[i]),
         value |-> IF s[i] \in DNodes THEN val[s[i]] ELSE NULL,
         meta |-> lyd_print_meta(mt, s[i])]]

\* ------------------------------------- lyds_is_supported, lyds_compare_single
\* a node without a schema (an opaque node)
NoSchema == [nodetype |-> "none", flags |-> {}]

NodeTypes == {"LYS_CONTAINER", "LYS_LEAF", "LYS_LEAFLIST", "LYS_LIST", "LYS_ANYDATA"}

Flags == {"LYS_ORDBY_SYSTEM", "LYS_ORDBY_USER", "LYS_KEYLESS", "LYS_KEY"}

Schemas == {NoSchema} \cup [nodetype : NodeTypes, flags : SUBSET Flags]

\* lyds_is_supported that does not look at LYS_KEYLESS
lyds_is_supported_keyless(schema) ==
    IF schema = NoSchema \/ "LYS_ORDBY_SYSTEM" \notin schema.flags THEN 0
    ELSE IF schema.nodetype \in {"LYS_LEAFLIST", "LYS_LIST"} THEN 1
    ELSE 0

lyds_is_supported(schema) ==
    IF schema = NoSchema \/ "LYS_ORDBY_SYSTEM" \notin schema.flags THEN 0
    ELSE IF schema.nodetype = "LYS_LEAFLIST" THEN 1
    ELSE IF schema.nodetype = "LYS_LIST" /\ "LYS_KEYLESS" \notin schema.flags THEN 1
    ELSE 0

\* the values of a key leaf or of a leaf-list instance
KeyValues == 1..MaxKeyVal

\* the children of a list instance: its key leaves, in the order of the schema, and
\* after them its other children
Keys(k) == [1..k -> [key : {TRUE}, value : KeyValues]]

Rest == UNION {[1..r -> [key : {FALSE}, value : KeyValues]] : r \in 0..MaxRest}

Children(k) == {ks \o rs : ks \in Keys(k), rs \in Rest}

ListSchema == [nodetype |-> "LYS_LIST", flags |-> {"LYS_ORDBY_SYSTEM"}]

LeafListSchema == [nodetype |-> "LYS_LEAFLIST", flags |-> {"LYS_ORDBY_SYSTEM"}]

rb_compare_leaflists_values(n1, n2) == rb_sort_clb(n1.value, n2.value)

\* the while loop of rb_compare_lists that takes the children that are not keys too
RECURSIVE rb_compare_lists_next_all(_, _, _, _)
rb_compare_lists_next_all(c1, c2, i, cmp) ==
    IF i <= Len(c1) /\ i <= Len(c2)
    THEN IF rb_sort_clb(c1[i].value, c2[i].value) # 0
         THEN rb_sort_clb(c1[i].value, c2[i].value)
         ELSE rb_compare_lists_next_all(c1, c2, i + 1, 0)
    ELSE cmp

\* the while loop of rb_compare_lists: k1 and k2 are the i-th children
RECURSIVE rb_compare_lists_next(_, _, _, _)
rb_compare_lists_next(c1, c2, i, cmp) ==
    IF i <= Len(c1) /\ c1[i].key
    THEN IF rb_sort_clb(c1[i].value, c2[i].value) # 0
         THEN rb_sort_clb(c1[i].value, c2[i].value)
         ELSE rb_compare_lists_next(c1, c2, i + 1, 0)
    ELSE cmp

rb_compare_lists(n1, n2) ==
    IF rb_sort_clb(n1.child[1].value, n2.child[1].value) # 0
    THEN rb_sort_clb(n1.child[1].value, n2.child[1].value)
    ELSE rb_compare_lists_next(n1.child, n2.child, 2, 0)

lyds_compare_single(node1, node2) ==
    IF node1.schema.nodetype = "LYS_LEAFLIST"
    THEN rb_compare_leaflists_values(node1, node2)
    ELSE rb_compare_lists(node1, node2)

\* the calls: lyds_is_supported on a node of any schema, lyds_compare_single on two
\* instances of one schema that lyds_is_supported accepts
SupportedArgs == [fn : {"lyds_is_supported"}, schema : Schemas]

CompareArgs ==
    UNION {[fn : {"lyds_compare_single"},
            node1 : [schema : {ListSchema}, child : Children(k)],
            node2 : [schema : {ListSchema}, child : Children(k)]] : k \in 1..MaxKeys}
    \cup [fn : {"lyds_compare_single"},
          node1 : [schema : {LeafListSchema}, value : KeyValues],
          node2 : [schema : {LeafListSchema}, value : KeyValues]]

\* no data tree takes part in these calls: it stays empty
InitSchema ==
    /\ InitData
    /\ val = [d \in DNodes |-> d]
    /\ modyang
    /\ sibs = <<>>
    /\ arg \in SupportedArgs \cup CompareArgs
    /\ result = NoResult

LydsIsSupported ==
    /\ arg.fn = "lyds_is_supported"
    /\ result = NoResult
    /\ result' = [fn |-> arg.fn, ret |-> lyds_is_supported(arg.schema)]
    /\ UNCHANGED <<val, modyang, arg, l_rbn, l_state, sibs, meta, rb, live, pc, leader, node,
                   Locals, ret, op, pre>>

LydsCompareSingle ==
    /\ arg.fn = "lyds_compare_single"
    /\ result = NoResult
    /\ result' = [fn |-> arg.fn, ret |-> lyds_compare_single(arg.node1, arg.node2)]
    /\ UNCHANGED <<val, modyang, arg, l_rbn, l_state, sibs, meta, rb, live, pc, leader, node,
                   Locals, ret, op, pre>>

\* ------------------------------------------------------ the worked example
\* an integer leaf-list whose instances hold 1, 3, 5, 8 (and larger values that
\* the example does not use)
ExampleVal == [d \in DNodes |-> IF d <= 4 THEN <<1, 3, 5, 8>>[d] ELSE 8 + d]

\* the instance that holds value v
Holding(v) == CHOOSE d \in DNodes : ExampleVal[d] = v

InitExample ==
    /\ val = ExampleVal
    /\ modyang \in BOOLEAN
    /\ sibs \in {<<>>, <<OtherBefore, OtherAfter>>}
    /\ InitIdle
    /\ arg = NoArg
    /\ result = NoResult

Members == {d \in DNodes : InSeq(sibs, d)}

\* the run starts with the instance holding 5
ExampleFirst ==
    /\ op = "none"
    /\ CallerInsertFirst(Holding(5))

\* 3, 8 and 1 are inserted, one after the other in any order
ExampleInsert(nd) ==
    /\ op \in {"first", "insert"}
    /\ nd \in {Holding(3), Holding(8), Holding(1)}
    /\ LydsInsert(nd)

\* then 3 is removed, then 1
ExampleUnlink(nd) ==
    /\ \/ nd = Holding(3) /\ Members = {Holding(1), Holding(3), Holding(5), Holding(8)}
       \/ nd = Holding(1) /\ Members = {Holding(1), Holding(5), Holding(8)}
    /\ LydsUnlink(nd)

\* ------------------------------------------------ lyds_free_tree, by steps
\* lyds_free_metadata up to the first turn of the loop of lyds_free_tree: the record
\* is looked up, and freeing it runs lyds_free_tree on its root, which starts with
\* rb_iter_begin. Without a record lyd_free_meta_single(NULL) does nothing.
LydsFreeMetadataBegin(nd) ==
    /\ Ready
    /\ nd \in DNodes
    /\ LET got == lyds_get_rb_tree(meta, nd)
           it == rb_iter_traversal(rb, got.rbt)
       IN  /\ got.meta # NoMeta
           /\ l_meta' = got.meta
           /\ rb' = it.n
           /\ l_rbn' = it.node
           /\ l_state' = it.next_state
    /\ pc' = "free_loop"
    /\ node' = nd
    /\ op' = "free"
    /\ pre' = Snapshot
    /\ UNCHANGED <<val, modyang, arg, result, sibs, meta, live, leader, l_rbt, l_iter, ret>>

\* one turn of the loop of lyds_free_tree: rb_free_node(rbn), then rb_iter_next
LydsFreeTreeStep ==
    /\ pc = "free_loop"
    /\ l_rbn # NULL
    /\ LET M == rb_free_node([n |-> rb, live |-> live], l_rbn)
           it == rb_iter_traversal(M.n, l_state)
       IN  /\ rb' = it.n
           /\ live' = M.live
           /\ l_rbn' = it.node
           /\ l_state' = IF it.node # NULL THEN it.next_state ELSE l_state
    /\ UNCHANGED <<val, modyang, arg, result, sibs, meta, pc, leader, node, Locals, ret, op, pre>>

\* the loop of lyds_free_tree ends, and the record is unlinked and freed
LydsFreeTreeEnd ==
    /\ pc = "free_loop"
    /\ l_rbn = NULL
    /\ meta' = [meta EXCEPT ![l_meta.d] = RemoveAt(meta[l_meta.d], l_meta.i)]
    /\ pc' = "idle"
    /\ l_meta' = NoMeta
    /\ l_state' = NULL
    /\ pre' = NoPre
    /\ UNCHANGED <<val, modyang, arg, result, l_rbn, sibs, rb, live, leader, node, l_rbt, l_iter,
                   ret, op>>

Next ==
    \/ \E nd \in DFew : CallerInsertFirst(nd)
    \/ \E nd \in DFew : LydsInsert(nd)
    \/ BuildLeader
    \/ BuildNext
    \/ BuildDone
    \/ BuildDoneNullMeta
    \/ LydsInsertFinish
    \/ LydsInsertNoMem
    \/ \E nd \in DFew : LydsUnlink(nd)
    \/ LydsUnlinkRemove
    \/ CallerUnlink
    \/ \E nd \in DFew : LydsFreeMetadata(nd)

Spec == Init /\ [][Next]_vars

\* Insertions and lyds_free_metadata, with lyds_create_metadata called by itself
\* between them; no allocation fails.
NextCreate ==
    \/ \E nd \in DFew : CallerInsertFirst(nd)
    \/ \E nd \in DFew : LydsInsert(nd)
    \/ BuildLeader
    \/ BuildNext
    \/ BuildDone
    \/ BuildDoneNullMeta
    \/ LydsInsertFinish
    \/ \E nd \in DFew : LydsFreeMetadata(nd)
    \/ \E nd \in DFew : LydsCreateMetadata(nd)

SpecCreate == Init /\ [][NextCreate]_vars

\* Insertions and lyds_create_metadata, with lyds_free_metadata taken one
\* turn of the loop of lyds_free_tree at a time; no allocation fails.
NextTeardown ==
    \/ \E nd \in DFew : CallerInsertFirst(nd)
    \/ \E nd \in DFew : LydsInsert(nd)
    \/ BuildLeader
    \/ BuildNext
    \/ BuildDone
    \/ BuildDoneNullMeta
    \/ LydsInsertFinish
    \/ \E nd \in DFew : LydsCreateMetadata(nd)
    \/ \E nd \in DFew : LydsFreeMetadataBegin(nd)
    \/ LydsFreeTreeStep
    \/ LydsFreeTreeEnd

SpecTeardown == Init /\ [][NextTeardown]_vars

\* The worked example: a run holding 5, then lyds_insert of 3, 8 and 1, then
\* lyds_unlink of 3 and of 1. The tree is built while the run has one member, so
\* BuildNext has nothing to do.
NextExample ==
    \/ ExampleFirst
    \/ \E nd \in DNodes : ExampleInsert(nd)
    \/ BuildLeader
    \/ BuildDone
    \/ BuildDoneNullMeta
    \/ LydsInsertFinish
    \/ LydsInsertNoMem
    \/ \E nd \in DNodes : ExampleUnlink(nd)
    \/ LydsUnlinkRemove
    \/ CallerUnlink

SpecExample == InitExample /\ [][NextExample]_vars

\* Insertions and removals of instances with values that all differ, one instance
\* more than elsewhere; nothing else is among the siblings, and the tree is built
\* while the run has one member, so BuildNext has nothing to do.
InitHeight ==
    /\ val = [d \in DNodes |-> d]
    /\ modyang = TRUE
    /\ sibs = <<>>
    /\ InitIdle
    /\ arg = NoArg
    /\ result = NoResult

NextHeight ==
    \/ \E nd \in DNodes : CallerInsertFirst(nd)
    \/ \E nd \in DNodes : LydsInsert(nd)
    \/ BuildLeader
    \/ BuildDone
    \/ LydsInsertFinish
    \/ \E nd \in DNodes : LydsUnlink(nd)
    \/ LydsUnlinkRemove
    \/ CallerUnlink

SpecHeight == InitHeight /\ [][NextHeight]_vars

\* One call of lyds_is_supported or of lyds_compare_single on arguments of any kind
NextSchema ==
    \/ LydsIsSupported
    \/ LydsCompareSingle

SpecSchema == InitSchema /\ [][NextSchema]_vars

\* =========================================================== properties
Range(q) == {q[i] : i \in 1..Len(q)}

RECURSIVE InOrderF(_, _, _)
InOrderF(n, x, f) ==
    IF x = NULL \/ f = 0 THEN <<>>
    ELSE InOrderF(n, n[x].left, f - 1) \o <<x>> \o InOrderF(n, n[x].right, f - 1)

\* the rb_node addresses of the tree under root, in in-order
InOrder(n, root) == InOrderF(n, root, NumD + 2)

TreeSet(n, root) == Range(InOrder(n, root))

\* the data nodes referenced by the tree, in in-order
InOrderD(n, root) == [i \in 1..Len(InOrder(n, root)) |-> n[InOrder(n, root)[i]].dnode]

\* the root held by the record on the first member of the run
RunRoot == IF Run(sibs) = <<>> THEN NULL ELSE lyds_get_rb_tree(meta, Head(Run(sibs))).rbt

\* every root a metadata record holds
RecordRoots == UNION {Range(meta[d]) : d \in AllD} \ {NULL}

\* the trees a state holds: those of the records, and the one being built
Roots == RecordRoots \cup (IF pc = "build_next" THEN {l_rbt} ELSE {})

SortedD(q) == \A i, j \in 1..Len(q) : i < j => rb_compare(q[i], q[j]) <= 0

\* C1: between operations, the in-order traversal of the run's tree yields the
\* instances in non-decreasing comparator order, and it is the linked-list order of
\* the run, element by element.
C1_InOrderIsListOrder ==
    (pc = "idle" /\ RunRoot # NULL) =>
        /\ InOrderD(rb, RunRoot) = Run(sibs)
        /\ SortedD(InOrderD(rb, RunRoot))

\* a tree of four nodes with equal values in it, after a removal
C1_Witness ==
    /\ pc = "idle" /\ op = "unlink" /\ RunRoot # NULL
    /\ Len(Run(sibs)) >= 4
    /\ InOrderD(rb, RunRoot) = Run(sibs)
    /\ \E i \in 1..(Len(Run(sibs)) - 1) : val[Run(sibs)[i]] = val[Run(sibs)[i + 1]]
    /\ \E i \in 1..(Len(Run(sibs)) - 1) : val[Run(sibs)[i]] < val[Run(sibs)[i + 1]]

\* the black height of the subtree under x, or -1 when a red node has a red child or
\* two paths differ in their number of black nodes
RECURSIVE BlackHeight(_, _, _)
BlackHeight(n, x, f) ==
    IF x = NULL THEN 1
    ELSE IF f = 0 THEN -1
    ELSE LET l == BlackHeight(n, n[x].left, f - 1)
             r == BlackHeight(n, n[x].right, f - 1)
         IN  IF l = -1 \/ r = -1 \/ l # r THEN -1
             ELSE IF n[x].color = RB_RED /\ (IsRed(n, n[x].left) \/ IsRed(n, n[x].right))
                  THEN -1
                  ELSE l + (IF n[x].color = RB_BLACK THEN 1 ELSE 0)

RedBlack(n, root) ==
    root = NULL \/ (n[root].color = RB_BLACK /\ BlackHeight(n, root, NumD + 2) # -1)

\* C2: after every rb_insert_node (each step of the lazy build included) and every
\* rb_remove the root is black, no red node has a red child, and all paths from the
\* root to an empty position hold the same number of black nodes.
C2_RedBlack == \A r \in Roots : RedBlack(rb, r)

\* after a removal: a tree of three black nodes, which only a fix-up leaves behind
C2_Witness ==
    /\ pc = "caller_unlink" /\ op = "unlink" /\ RunRoot # NULL
    /\ Cardinality(TreeSet(rb, RunRoot)) = 3
    /\ \A a \in TreeSet(rb, RunRoot) : rb[a].color = RB_BLACK

\* C3: between operations a run has at most one Anchor Record, on its first member.
C3_OneAnchorOnLeader ==
    pc = "idle" =>
        \A k \in 1..Len(Run(sibs)) :
            IF k = 1 THEN Len(meta[Run(sibs)[k]]) <= 1 ELSE meta[Run(sibs)[k]] = <<>>

\* the leader was removed and its successor holds the record
C3_Witness ==
    /\ pc = "idle" /\ op = "unlink" /\ leader = node
    /\ Len(Run(sibs)) >= 2
    /\ Len(meta[Head(Run(sibs))]) = 1
    /\ RunRoot # NULL

\* C4: when the anchor holds a non-empty root, between operations the tree has exactly
\* one Index Node per member of the run and no other: each member is referenced by
\* one node, each node references one member, no other sibling is referenced.
C4_OneIndexNodePerMember ==
    (pc = "idle" /\ RunRoot # NULL) =>
        LET io == InOrder(rb, RunRoot) IN
        /\ \A i, j \in 1..Len(io) : i # j => io[i] # io[j]
        /\ Range(io) \subseteq live
        /\ \A m \in Range(Run(sibs)) : Cardinality({a \in Range(io) : rb[a].dnode = m}) = 1
        /\ \A a \in Range(io) : rb[a].dnode \in Range(Run(sibs))

\* a tree built over a run that ends at a sibling of another schema, after a member
\* with two children was removed
C4_Witness ==
    /\ pc = "idle" /\ RunRoot # NULL
    /\ InSeq(sibs, OtherAfter)
    /\ op = "unlink"
    /\ Len(Run(sibs)) >= 3
    /\ Cardinality(TreeSet(rb, RunRoot)) = Len(Run(sibs))

\* C5: rb_find returns the Index Node that references the target itself whenever the
\* tree holds one, also among nodes that compare equal, and NULL when none does.
C5_FindByIdentity ==
    \A r \in Roots : \A t \in DNodes :
        LET f == rb_find(rb, r, t) IN
        IF \E a \in TreeSet(rb, r) : rb[a].dnode = t
        THEN f # NULL /\ rb[f].dnode = t
        ELSE f = NULL

\* three nodes of one value in the tree, the root one of them and the other two
\* found from it, and an instance outside the tree that compares equal to a member
C5_Witness ==
    /\ pc = "idle" /\ RunRoot # NULL
    /\ \E t, u, w \in Range(Run(sibs)) :
           /\ Cardinality({t, u, w}) = 3
           /\ val[t] = val[u] /\ val[u] = val[w]
           /\ rb[RunRoot].dnode = u
           /\ rb_find(rb, RunRoot, t) # NULL /\ rb[rb_find(rb, RunRoot, t)].dnode = t
           /\ rb_find(rb, RunRoot, w) # NULL /\ rb[rb_find(rb, RunRoot, w)].dnode = w
    /\ \E x \in DNodes \ Range(Run(sibs)) : \E m \in Range(Run(sibs)) :
           val[x] = val[m] /\ rb_find(rb, RunRoot, x) = NULL

\* the data nodes the tree under root references
TreeD(n, root) == {n[a].dnode : a \in TreeSet(n, root)}

\* C6: lyds_unlink of one of several instances that compare equal removes and frees
\* the Index Node of that very instance; every other instance, equal ones included,
\* stays in the tree and is still found by rb_find.
C6_RemoveByIdentity ==
    [][(pc = "rb_remove" /\ pc' = "caller_unlink" /\ l_rbt # NULL) =>
          LET root == RBT_GET(meta', l_meta) IN
          /\ \E a \in live : rb[a].dnode = node /\ live' = live \ {a}
          /\ TreeD(rb', root) = TreeD(rb, l_rbt) \ {node}
          /\ Cardinality(TreeSet(rb', root)) = Cardinality(TreeSet(rb, l_rbt)) - 1
          /\ \A d \in TreeD(rb, l_rbt) \ {node} :
                 rb_find(rb', root, d) # NULL /\ rb'[rb_find(rb', root, d)].dnode = d]_vars

\* one of three equal instances was removed, the two others are in the tree
C6_Witness ==
    /\ pc = "caller_unlink" /\ op = "unlink" /\ RunRoot # NULL
    /\ node \notin TreeD(rb, RunRoot)
    /\ \E d, e \in TreeD(rb, RunRoot) :
           d # e /\ val[d] = val[node] /\ val[e] = val[node]

\* C7: when lyds_insert inserts a node that is less than every member, the node is
\* linked right before the old leader, the caller's leader reference becomes the node
\* and the node is the only member that holds the Anchor Record.
C7_NewMinimumBecomesLeader ==
    [][(pc = "rb_insert" /\ pc' = "idle" /\ ret' = LY_SUCCESS
        /\ \A m \in Range(Run(sibs)) : rb_compare(node, m) < 0) =>
          LET i == IndexOf(sibs, Head(Run(sibs))) IN
          /\ sibs' = SubSeq(sibs, 1, i - 1) \o <<node>> \o SubSeq(sibs, i, Len(sibs))
          /\ leader' = node
          /\ Len(meta'[node]) = 1
          /\ \A d \in Range(sibs) : meta'[d] = <<>>]_vars

\* a new minimum was inserted before a leader that follows a sibling of another schema
C7_Witness ==
    /\ pc = "idle" /\ op = "insert" /\ ret = LY_SUCCESS
    /\ leader = node /\ Head(Run(sibs)) = node
    /\ Len(Run(sibs)) >= 3
    /\ Head(sibs) = OtherBefore
    /\ Len(meta[node]) = 1 /\ RunRoot # NULL

\* C8: lyds_unlink of the leader of an indexed run of two or more members moves the
\* Anchor Record to the next sibling while the leader's Index Node is still in the
\* tree, and removes the Index Node afterwards; the next sibling is then the only
\* holder of the record.
C8_LeaderUnlinkMovesAnchorFirst ==
    [][/\ (pc = "idle" /\ op' = "unlink" /\ pc' # "idle" /\ node' = Head(Run(sibs))
           /\ Len(Run(sibs)) >= 2 /\ meta[node'] # <<>>) =>
              /\ pc' = "rb_remove"
              /\ meta'[node'] = <<>>
              /\ meta'[Run(sibs)[2]] = meta[node']
              /\ rb' = rb /\ live' = live
       /\ (pc = "rb_remove" /\ leader = node /\ pc' = "caller_unlink") =>
              /\ l_rbt # NULL => node \in TreeD(rb, l_rbt)
              /\ Len(meta'[Run(sibs)[2]]) = 1
              /\ \A d \in Range(sibs) \ {Run(sibs)[2]} : meta'[d] = <<>>
              /\ node \notin TreeD(rb', meta'[Run(sibs)[2]][1])
              /\ \A a \in live' : rb'[a].dnode # node]_vars

\* the leader of a run of three or more was removed from the index
C8_Witness ==
    /\ pc = "caller_unlink" /\ op = "unlink" /\ leader = node
    /\ Head(Run(sibs)) = node
    /\ Len(Run(sibs)) >= 3
    /\ Len(meta[Run(sibs)[2]]) = 1 /\ meta[Run(sibs)[2]][1] # NULL
    /\ node \notin TreeD(rb, meta[Run(sibs)[2]][1])

\* C9 as claimed: once every instance is removed again, the tree is empty, the Anchor
\* Record is absent or holds an empty root, and every Index Node is freed.
C9_RoundTripLeavesNothing ==
    (pc = "idle" /\ op = "unlink" /\ Run(sibs) = <<>>) =>
        /\ live = {}
        /\ RecordRoots = {}

\* C9 as the code has it: the last member is removed by a lyds_unlink that returns
\* early, so it keeps the Anchor Record; the record's tree is empty or the one
\* Index Node of that member, without children; every other Index Node is freed.
C9_RoundTripLeavesOneNode ==
    (pc = "idle" /\ op = "unlink" /\ Run(sibs) = <<>>) =>
        /\ \A d \in DNodes : Len(meta[d]) <= 1
        /\ \A a \in live : \E d \in DNodes :
               /\ meta[d] = <<a>>
               /\ rb[a] = [ZeroNode EXCEPT !.dnode = d]

\* the last member kept its record and its Index Node when the run became empty
C9_Witness ==
    /\ pc = "idle" /\ op = "unlink" /\ Run(sibs) = <<>>
    /\ Len(meta[node]) = 1 /\ meta[node][1] \in live
    /\ rb[meta[node][1]].dnode = node
    /\ Cardinality(live) = 1

\* C10: when calloc fails in lyds_insert, LY_EMEM is returned and the tree (members,
\* shape, colors, the root in the anchor) and the sibling list are as before the call.
C10_AllocFailureChangesNothing ==
    (pc = "idle" /\ ret = LY_EMEM) =>
        /\ sibs = pre.sibs
        /\ lyds_get_rb_tree(meta, leader).rbt = lyds_get_rb_tree(pre.meta, leader).rbt
        /\ \A a \in TreeSet(pre.rb, lyds_get_rb_tree(pre.meta, leader).rbt) :
               a \in live /\ rb[a] = pre.rb[a]

\* C11: whenever lyds_insert returns an error nothing is left behind: the records, the
\* rb_node memory and the sibling list are what they were when it was called.
C11_InsertErrorLeavesNothing ==
    (pc = "idle" /\ op = "insert" /\ ret # LY_SUCCESS) =>
        /\ meta = pre.meta
        /\ live = pre.live
        /\ rb = pre.rb
        /\ sibs = pre.sibs

\* C12: when the 'yang' module is missing and the leader has no record, lyds_insert
\* returns the error of lyds_create_metadata at once, the node is in neither the tree
\* nor the list.
C12_MissingModuleIsSurfaced ==
    (op = "insert" /\ pre # NoPre /\ ~modyang
     /\ lyds_get_rb_tree(pre.meta, leader).meta = NoMeta) =>
        /\ pc = "idle"
        /\ ret = LY_EINT
        /\ sibs = pre.sibs
        /\ live = pre.live

C14_UnlinkWithoutIndexIsNoOp ==
    [][(pc = "idle" /\ pc' \in {"rb_remove", "caller_unlink"}
        /\ (lyds_get_rb_tree(meta, Head(Run(sibs))).meta = NoMeta \/ Len(Run(sibs)) = 1)) =>
          /\ pc' = "caller_unlink"
          /\ meta' = meta /\ rb' = rb /\ live' = live /\ sibs' = sibs]_vars

\* lyds_unlink returned on the only member of a run, which holds a record with a tree
C14_Witness ==
    /\ pc = "caller_unlink" /\ op = "unlink"
    /\ Run(sibs) = <<node>>
    /\ Len(meta[node]) = 1 /\ meta[node][1] \in live
    /\ meta = pre.meta /\ live = pre.live

\* C15 as claimed: after lyds_unlink of a member of a run whose record holds a tree, no
\* rb_node references the member any more: its node is out of the tree and freed.
C15_UnlinkFreesIndexNode ==
    (pc = "caller_unlink" /\ lyds_get_rb_tree(pre.meta, leader).rbt # NULL) =>
        /\ \A a \in live : rb[a].dnode # node
        /\ \A r \in RecordRoots : node \notin TreeD(rb, r)

\* C15 as the code has it: the same, for a run of two or more members; the only member
\* of a run keeps its rb_node (lyds_unlink returns before rb_remove_node).
C15_UnlinkFreesIndexNodeOfSeveral ==
    (pc = "caller_unlink" /\ lyds_get_rb_tree(pre.meta, leader).rbt # NULL
     /\ Len(Run(sibs)) >= 2) =>
        /\ \A a \in live : rb[a].dnode # node
        /\ \A r \in RecordRoots : node \notin TreeD(rb, r)
        /\ live \subseteq pre.live /\ Cardinality(live) = Cardinality(pre.live) - 1

\* a member that is not the leader was removed from a tree of four or more nodes
C15_Witness ==
    /\ pc = "caller_unlink" /\ leader # node
    /\ lyds_get_rb_tree(pre.meta, leader).rbt # NULL
    /\ Len(Run(sibs)) >= 4
    /\ \E a \in pre.live \ live : pre.rb[a].dnode = node
    /\ \A a \in live : rb[a].dnode # node

\* C16: no step of lyds_unlink changes the sibling list.
C16_UnlinkKeepsSiblingList ==
    [][(pc' \in {"rb_remove", "caller_unlink"}) => sibs' = sibs]_vars

\* lyds_unlink removed the leader from the tree and the list is as it was
C16_Witness ==
    /\ pc = "caller_unlink" /\ op = "unlink" /\ leader = node
    /\ sibs = pre.sibs /\ Head(Run(sibs)) = node /\ InSeq(sibs, OtherBefore)
    /\ live # pre.live /\ meta # pre.meta

\* C17: lyds_insert first discards the record the node carries (and frees its tree);
\* after a successful lyds_insert the node holds a record exactly when it is the first
\* member of the run, and then that one record is the run's: its tree is the run.
C17_StaleRecordDiscarded ==
    [][/\ (pc = "idle" /\ pc' \in {"build_leader", "rb_insert"}) =>
              /\ meta'[node'] = <<>>
              /\ \A a \in TreeSet(rb, lyds_get_rb_tree(meta, node').rbt) : a \notin live'
       /\ (pc = "rb_insert" /\ pc' = "idle" /\ ret' = LY_SUCCESS) =>
              /\ (meta'[node] # <<>>) <=> (Head(Run(sibs')) = node)
              /\ meta'[node] # <<>> =>
                     /\ Len(meta'[node]) = 1
                     /\ TreeD(rb', meta'[node][1]) = Range(Run(sibs'))]_vars

\* the node came with a record that held an rb_node, and the record is gone
C17_Witness ==
    /\ pc = "rb_insert" /\ op = "insert"
    /\ pre # NoPre
    /\ Len(pre.meta[node]) = 1 /\ pre.meta[node][1] \in pre.live
    /\ meta[node] = <<>>
    /\ \A m \in Range(Run(sibs)) : rb_compare(node, m) < 0

\* C18: a node that compares equal to members of the run is linked right after the
\* last of them, and the in-order sequence of the tree is the new list order: equal
\* members follow one another in the order of their insertion.
C18_TiesGoRight ==
    [][(pc = "rb_insert" /\ pc' = "idle" /\ ret' = LY_SUCCESS
        /\ \E m \in Range(Run(sibs)) : rb_compare(m, node) = 0) =>
          LET last == CHOOSE i \in 1..Len(sibs) :
                          /\ sibs[i] \in DNodes /\ rb_compare(sibs[i], node) = 0
                          /\ \A j \in (i + 1)..Len(sibs) :
                                 ~(sibs[j] \in DNodes /\ rb_compare(sibs[j], node) = 0)
              root == lyds_get_rb_tree(meta', Head(Run(sibs'))).rbt
          IN  /\ sibs' = SubSeq(sibs, 1, last) \o <<node>> \o SubSeq(sibs, last + 1, Len(sibs))
              /\ InOrderD(rb', root) = Run(sibs')]_vars

\* the node follows two equal members, the one right before it with a greater number
\* (so the order is that of insertion), and a greater member follows it
C18_Witness ==
    /\ pc = "idle" /\ op = "insert" /\ ret = LY_SUCCESS
    /\ \E i \in 3..(Len(Run(sibs)) - 1) :
           /\ Run(sibs)[i] = node
           /\ val[Run(sibs)[i - 1]] = val[node] /\ val[Run(sibs)[i - 2]] = val[node]
           /\ Run(sibs)[i - 1] > node
           /\ val[Run(sibs)[i + 1]] > val[node]

\* the rb_nodes that are allocated and have no parent
ParentLess == {a \in live : rb[a].parent = NULL}

\* C19: after every successful lyds_insert and every lyds_unlink the root a record
\* holds is the root of the tree: an allocated rb_node without parent, with every node
\* of its tree allocated, and every allocated rb_node without parent is such a root.
C19_RecordHoldsTheRoot ==
    ((pc = "idle" /\ ret = LY_SUCCESS) \/ pc = "caller_unlink") =>
        /\ \A d \in AllD : \A i \in 1..Len(meta[d]) :
               meta[d][i] # NULL =>
                   /\ meta[d][i] \in ParentLess
                   /\ TreeSet(rb, meta[d][i]) \subseteq live
        /\ ParentLess = RecordRoots
        /\ \A a \in live : \E r \in RecordRoots : a \in TreeSet(rb, r)

\* a removal rotated another node into the root: the former root is still in the
\* tree, below the root the record now holds
C19_Witness ==
    /\ pc = "caller_unlink" /\ op = "unlink"
    /\ Len(Run(sibs)) >= 3
    /\ LET old == lyds_get_rb_tree(pre.meta, leader).rbt
           new == lyds_get_rb_tree(meta, IF leader = node THEN Run(sibs)[2] ELSE leader).rbt
       IN  /\ old # NULL /\ new # NULL /\ old # new
           /\ old \in TreeSet(rb, new)
           /\ rb[new].parent = NULL /\ rb[old].parent # NULL

\* the records the members of the run s hold, as pairs of holder and position
RunRecords(s, mt) == {<<d, i>> \in Range(Run(s)) \X (1..2) : i <= Len(mt[d])}

\* C20: the record passes from leader to leader by a move.  In no state do the members
\* of a run hold two records.  When lyds_unlink removes the leader, the next member
\* gets the very record, with the root it held, and the leader has none; when
\* lyds_insert links a new first member, the former leader has none, the node holds
\* the one record, and lyds_move_meta itself leaves the root as it was.
C20_RecordIsMoved ==
    [][/\ Cardinality(RunRecords(sibs', meta')) <= 1
       /\ (pc = "idle" /\ pc' = "rb_remove" /\ node' = Head(Run(sibs))) =>
              /\ meta'[node'] = <<>>
              /\ meta'[Run(sibs)[2]] = meta[node']
              /\ \A d \in AllD \ {node', Run(sibs)[2]} : meta'[d] = meta[d]
       /\ (pc = "rb_insert" /\ pc' = "idle" /\ ret' = LY_SUCCESS /\ leader' = node) =>
              /\ meta'[leader] = <<>>
              /\ Len(meta'[node]) = 1
              /\ \A d \in AllD \ {node, leader} : meta'[d] = meta[d]
              /\ lyds_move_meta(meta, node, l_meta).mt[node] = meta[leader]]_vars

\* a new first member took the record over from the leader of a run of three
C20_Witness ==
    /\ pc = "idle" /\ op = "insert" /\ ret = LY_SUCCESS
    /\ Head(Run(sibs)) = node /\ leader = node
    /\ Len(Run(sibs)) >= 4
    /\ Len(meta[node]) = 1 /\ meta[node][1] # NULL
    /\ Cardinality(RunRecords(sibs, meta)) = 1

\* the rb_nodes that rb_iter_traversal reads when it starts from current_state
RECURSIVE IterPath(_, _)
IterPath(n, iter) ==
    IF iter = NULL THEN {}
    ELSE IF n[iter].left # NULL THEN {iter} \cup IterPath(n, n[iter].left)
    ELSE IF n[iter].right # NULL THEN {iter} \cup IterPath(n, n[iter].right)
    ELSE {iter}

\* the root that lyds_free_tree was called with
FreedRoot == lyds_get_rb_tree(pre.meta, node).rbt

\* C21: during lyds_free_tree on any tree, only rb_nodes of that tree are freed; the
\* rb_node about to be freed is still allocated (so none is freed twice), all of its
\* descendants are freed already, and the link of its parent to it is cleared while
\* the parent, still allocated, is where the traversal resumes; the traversal that
\* follows the free reads only allocated rb_nodes; and when the loop ends every
\* rb_node of the tree is freed.
C21_TeardownFreesEachOnce ==
    pc = "free_loop" =>
        /\ live \subseteq pre.live
        /\ pre.live \ live \subseteq TreeSet(pre.rb, FreedRoot)
        /\ l_rbn # NULL =>
              /\ l_rbn \in live \cap TreeSet(pre.rb, FreedRoot)
              /\ \A a \in TreeSet(pre.rb, l_rbn) \ {l_rbn} : a \notin live
              /\ l_state = pre.rb[l_rbn].parent
              /\ l_state # NULL =>
                    /\ l_state \in live
                    /\ rb[l_state].left # l_rbn
                    /\ rb[l_state].right # l_rbn
              /\ IterPath(rb_free_node([n |-> rb, live |-> live], l_rbn).n, l_state)
                     \subseteq live \ {l_rbn}
        /\ l_rbn = NULL => TreeSet(pre.rb, FreedRoot) \cap live = {}

\* the root of a tree of four or more rb_nodes is about to be freed, last of all
C21_Witness ==
    /\ pc = "free_loop"
    /\ l_rbn # NULL
    /\ l_rbn = FreedRoot
    /\ Cardinality(TreeSet(pre.rb, FreedRoot)) >= 4
    /\ live \cap TreeSet(pre.rb, FreedRoot) = {l_rbn}

\* C22: lyds_is_supported returns 1 exactly when the node has a schema flagged
\* LYS_ORDBY_SYSTEM that is a leaf-list, or a list without LYS_KEYLESS, and 0
\* otherwise: without a schema, without the flag (user-ordered), for a keyless list
\* and for every other node type.
C22_IsSupportedTable ==
    result.fn = "lyds_is_supported" =>
        /\ result.ret \in {0, 1}
        /\ result.ret = 1 <=>
              /\ arg.schema # NoSchema
              /\ "LYS_ORDBY_SYSTEM" \in arg.schema.flags
              /\ \/ arg.schema.nodetype = "LYS_LEAFLIST"
                 \/ /\ arg.schema.nodetype = "LYS_LIST"
                    /\ "LYS_KEYLESS" \notin arg.schema.flags

\* a system-ordered keyless list is refused
C22_Witness ==
    /\ result.fn = "lyds_is_supported"
    /\ result.ret = 0
    /\ arg.schema.nodetype = "LYS_LIST"
    /\ arg.schema.flags = {"LYS_ORDBY_SYSTEM", "LYS_KEYLESS"}

\* the keys of a list instance, in the order of the schema
KeysOf(nd) == SelectSeq(nd.child, LAMBDA c : c.key)

\* the first position at which two sequences of keys differ, 0 when there is none
FirstDiff(k1, k2) ==
    IF \A i \in 1..Len(k1) : k1[i].value = k2[i].value THEN 0
    ELSE CHOOSE i \in 1..Len(k1) :
            /\ k1[i].value # k2[i].value
            /\ \A j \in 1..(i - 1) : k1[j].value = k2[j].value

Sign(x) == IF x < 0 THEN -1 ELSE IF x > 0 THEN 1 ELSE 0

\* C23: on two list instances of one schema lyds_compare_single is the lexicographic
\* comparison of the key values in schema order: 0 exactly when all keys are equal,
\* and otherwise the sign of the comparison of the first keys that differ; children
\* that are not keys have no part in it.
C23_ListsCompareByKeys ==
    (result.fn = "lyds_compare_single" /\ arg.node1.schema = ListSchema) =>
        LET k1 == KeysOf(arg.node1)
            k2 == KeysOf(arg.node2)
            d == FirstDiff(k1, k2)
        IN  IF d = 0 THEN result.ret = 0
            ELSE Sign(result.ret) = Sign(rb_sort_clb(k1[d].value, k2[d].value))

\* equal first keys, the second keys decide against children that are not keys and
\* differ the other way
C23_Witness ==
    /\ result.fn = "lyds_compare_single"
    /\ arg.node1.schema = ListSchema
    /\ Len(KeysOf(arg.node1)) = 2
    /\ Len(arg.node1.child) = 3
    /\ Len(arg.node2.child) = 3
    /\ arg.node1.child[1].value = arg.node2.child[1].value
    /\ arg.node1.child[2].value < arg.node2.child[2].value
    /\ arg.node1.child[3].value > arg.node2.child[3].value
    /\ result.ret < 0

\* the number of rb_nodes on the longest path from x down to a leaf
RECURSIVE HeightF(_, _, _)
HeightF(n, x, f) ==
    IF x = NULL \/ f = 0 THEN 0
    ELSE LET l == HeightF(n, n[x].left, f - 1)
             r == HeightF(n, n[x].right, f - 1)
         IN  1 + (IF l > r THEN l ELSE r)

Height(n, root) == HeightF(n, root, NumD + 2)

\* C24: in the worked example, once 3, 8 and 1 are inserted into the run holding 5 the
\* siblings are in the order 1, 3, 5, 8; after the removal of 3 they are 1, 5, 8 and
\* the tree has at most 2 levels; after the removal of 1 the instance holding 5 is the
\* first of the run and carries the one record, whose tree holds 5 and 8.
C24_WorkedExample ==
    (pc = "idle" /\ ret = LY_SUCCESS) =>
        /\ Members = {Holding(1), Holding(3), Holding(5), Holding(8)} =>
              Run(sibs) = <<Holding(1), Holding(3), Holding(5), Holding(8)>>
        /\ (op = "unlink" /\ Members = {Holding(1), Holding(5), Holding(8)}) =>
              /\ Run(sibs) = <<Holding(1), Holding(5), Holding(8)>>
              /\ InOrderD(rb, RunRoot) = Run(sibs)
              /\ Height(rb, RunRoot) <= 2
        /\ (op = "unlink" /\ Members = {Holding(5), Holding(8)}) =>
              /\ Run(sibs) = <<Holding(5), Holding(8)>>
              /\ RunRecords(sibs, meta) = {<<Holding(5), 1>>}
              /\ Len(meta[Holding(5)]) = 1
              /\ InOrderD(rb, RunRoot) = Run(sibs)

\* the end of the example: 1 is removed and the record is on the instance holding 5
C24_Witness ==
    /\ pc = "idle" /\ ret = LY_SUCCESS /\ op = "unlink"
    /\ node = Holding(1)
    /\ val[Head(Run(sibs))] = 5
    /\ [i \in 1..Len(Run(sibs)) |-> val[Run(sibs)[i]]] = <<5, 8>>
    /\ lyds_get_rb_tree(meta, Head(Run(sibs))).rbt # NULL
    /\ meta[Holding(1)] = <<>>

RootBefore == lyds_get_rb_tree(pre.meta, leader).rbt

\* the rb_nodes allocated when lyds_insert was called, less those of the tree that a
\* record on the inserted node held
LiveBefore == pre.live \ TreeSet(pre.rb, lyds_get_rb_tree(pre.meta, node).rbt)

\* C26: lyds_insert builds the tree only when the leader has no record or a record
\* with a NULL root.  Then, when the build is done, the record holds a root that is
\* not NULL, and the tree has one new rb_node for each member of the run, from the
\* leader to the last sibling of its schema, in their order, whatever their number.
\* When the record held a root, nothing is built: the root, the allocated rb_nodes
\* and their contents are those from before the call.
C26_LazyBuildOnce ==
    /\ pc \in {"build_leader", "build_next"} => RootBefore = NULL
    /\ pc = "rb_insert" =>
          IF RootBefore = NULL
          THEN /\ l_rbt # NULL
               /\ lyds_get_rb_tree(meta, leader).rbt = l_rbt
               /\ InOrderD(rb, l_rbt) = Run(sibs)
               /\ TreeSet(rb, l_rbt) = live \ LiveBefore
               /\ Cardinality(live \ LiveBefore) = Len(Run(sibs))
          ELSE /\ l_rbt = RootBefore
               /\ live = LiveBefore
               /\ \A a \in live : rb[a] = pre.rb[a]
               /\ meta[leader] = pre.meta[leader]

\* a run of three between siblings of other schemas, whose leader has a record with
\* a NULL root, has got its tree
C26_Witness ==
    /\ pc = "rb_insert"
    /\ pre.meta[leader] = <<NULL>>
    /\ Len(Run(sibs)) = 3
    /\ InSeq(sibs, OtherAfter)
    /\ Cardinality(TreeSet(rb, l_rbt)) = 3

\* the root of the run's tree when lyds_unlink was called
UnlinkRootBefore == lyds_get_rb_tree(pre.meta, Head(Run(pre.sibs))).rbt

\* the member that holds the record when lyds_unlink has returned
UnlinkHolder == IF node = Head(Run(sibs)) THEN Run(sibs)[2] ELSE Head(Run(sibs))

\* q without its element x
Without(q, x) == SelectSeq(q, LAMBDA a : a # x)

\* C27: when lyds_unlink has removed the rb_node X of node with rb_remove, whichever
\* children X had, X is the one rb_node that was returned and freed; every other
\* rb_node is still allocated and in the tree with the dnode it had, and the in-order
\* sequence of the tree is the one from before with X taken out.
C27_RemoveDetachesOnlyX ==
    (pc = "caller_unlink" /\ UnlinkRootBefore # NULL /\ Len(Run(sibs)) >= 2) =>
        LET before == InOrder(pre.rb, UnlinkRootBefore)
            after == InOrder(rb, lyds_get_rb_tree(meta, UnlinkHolder).rbt)
        IN  \E X \in Range(before) :
                /\ pre.rb[X].dnode = node
                /\ live = pre.live \ {X}
                /\ after = Without(before, X)
                /\ \A a \in Range(after) : rb[a].dnode = pre.rb[a].dnode

\* an rb_node with two children, whose successor is not its right child, was removed
C27_Witness ==
    /\ pc = "caller_unlink" /\ UnlinkRootBefore # NULL /\ Len(Run(sibs)) >= 2
    /\ \E X \in pre.live \ live :
           /\ pre.rb[X].left # NULL
           /\ pre.rb[X].right # NULL
           /\ pre.rb[pre.rb[X].right].left # NULL

\* C28: for every rb_node of a tree between operations, rb_prev is the rb_node right
\* before it in the in-order sequence, NULL for the first, and rb_next the one right
\* after it, NULL for the last; so rb_next undoes rb_prev and rb_prev undoes rb_next
\* wherever they are not NULL.
C28_PrevNextAreNeighbours ==
    pc = "idle" =>
        \A r \in RecordRoots :
            LET io == InOrder(rb, r) IN
            \A i \in 1..Len(io) :
                /\ rb_prev(rb, io[i]) = IF i = 1 THEN NULL ELSE io[i - 1]
                /\ rb_next(rb, io[i]) = IF i = Len(io) THEN NULL ELSE io[i + 1]
                /\ rb_prev(rb, io[i]) # NULL => rb_next(rb, rb_prev(rb, io[i])) = io[i]
                /\ rb_next(rb, io[i]) # NULL => rb_prev(rb, rb_next(rb, io[i])) = io[i]

\* a tree of five after a removal: a successor that is reached by a descent to the
\* left, and a predecessor that is reached by a climb
C28_Witness ==
    /\ pc = "idle" /\ op = "unlink" /\ RunRoot # NULL
    /\ Len(InOrder(rb, RunRoot)) >= 4
    /\ \E a \in TreeSet(rb, RunRoot) :
           /\ rb[a].right # NULL
           /\ rb_next(rb, a) # rb[a].right
    /\ \E a \in TreeSet(rb, RunRoot) :
           /\ rb[a].left = NULL
           /\ rb_prev(rb, a) # NULL
           /\ rb_prev(rb, a) # rb[a].parent

\* C29: when lyds_insert completes for a node that is greater than or equal to some
\* member of the run, the first member of the run, the caller's leader and the one
\* member holding the record are the same as before the insertion; so the leader
\* changes only for a node less than every member.
C29_LeaderKeptUnlessNewMinimum ==
    [][(pc = "rb_insert" /\ pc' = "idle" /\ ret' = LY_SUCCESS
            /\ \E m \in Range(Run(sibs)) : rb_compare(node, m) >= 0) =>
          /\ leader' = leader
          /\ Head(Run(sibs')) = Head(Run(sibs))
          /\ Head(Run(sibs')) = leader
          /\ RunRecords(sibs', meta') = {<<leader, 1>>}
          /\ meta'[node] = <<>>]_vars

\* a node equal to the leader, and less than the members after it, was inserted
C29_Witness ==
    /\ pc = "idle" /\ op = "insert" /\ ret = LY_SUCCESS
    /\ Len(Run(sibs)) >= 3
    /\ Run(sibs)[2] = node
    /\ val[node] = val[Head(Run(sibs))]
    /\ val[node] < val[Run(sibs)[3]]
    /\ leader = Head(Run(sibs))
    /\ RunRecords(sibs, meta) = {<<leader, 1>>}

RECURSIVE Pow2(_)
Pow2(k) == IF k = 0 THEN 1 ELSE 2 * Pow2(k - 1)

\* C30: every tree that records hold, after any insertions and removals, has a height
\* h (rb_nodes on the longest path from the root down) of at most 2*log2(n+1) for its
\* n rb_nodes, which is to say 2^h <= (n+1)^2.
C30_HeightBound ==
    \A r \in RecordRoots :
        Pow2(Height(rb, r)) <= (Cardinality(TreeSet(rb, r)) + 1) * (Cardinality(TreeSet(rb, r)) + 1)

\* a tree of six rb_nodes with four of them on one path
C30_Witness ==
    /\ pc = "idle"
    /\ RunRoot # NULL
    /\ Cardinality(TreeSet(rb, RunRoot)) = 6
    /\ Height(rb, RunRoot) = 4

\* the records (data node, position) whose tree holds the rb_node a
HoldersOf(a) ==
    {m \in AllD \X (1..2) : m[2] <= Len(meta[m[1]]) /\ a \in TreeSet(rb, meta[m[1]][m[2]])}

\* C32: between operations, a failed allocation included, every rb_node that is
\* allocated and not freed is in the tree under the root of exactly one record.
C32_EveryNodeOwnedByOneRecord ==
    pc = "idle" => \A a \in live : Cardinality(HoldersOf(a)) = 1

\* the condition of the assert of line 1030 for a record that holds the root rbt,
\* read from an rb_node that is allocated
StaleRootAccepted(rbt) ==
    rbt = NULL \/ (rbt \in live /\ rb[rbt].left = NULL /\ rb[rbt].right = NULL)

\* C33: an instance that is not among the siblings (it was never linked, or it was
\* taken out with lyds_unlink and the caller's unlink) and that carries a record has
\* in it a NULL root or a root without children, which is what the assert at the
\* start of lyds_insert demands of it.
C33_StandaloneRecordIsSmall ==
    \A d \in DNodes :
        (~InSeq(sibs, d) /\ meta[d] # <<>>) =>
            \A i \in 1..Len(meta[d]) : StaleRootAccepted(meta[d][i])

\* lyds_insert was called for an instance that carried a record with one rb_node,
\* left from its removal as the only member of a run
C33_Witness ==
    /\ op = "insert"
    /\ pc = "rb_insert"
    /\ Len(pre.meta[node]) = 1
    /\ pre.meta[node][1] # NULL
    /\ pre.meta[node][1] \in pre.live
    /\ pre.rb[pre.meta[node][1]].dnode = node

\* C34: whichever rb_node of a tree between operations is removed, every tmp whose
\* members rb_remove_color reads, at first and after each rotation, is an rb_node of
\* the tree and never NULL.
C34_SiblingNeverNull ==
    pc = "idle" =>
        \A r \in RecordRoots :
            \A X \in TreeSet(rb, r) :
                /\ NULL \notin rb_remove_tmps([n |-> rb, rbt |-> r], X)
                /\ rb_remove_tmps([n |-> rb, rbt |-> r], X) \subseteq TreeSet(rb, r) \ {X}

\* a removal whose fix-up goes around the loop more than once and reads three
\* different siblings
C34_Witness ==
    /\ pc = "idle"
    /\ RunRoot # NULL
    /\ RedBlack(rb, RunRoot)
    /\ \E X \in TreeSet(rb, RunRoot) :
           Cardinality(rb_remove_tmps([n |-> rb, rbt |-> RunRoot], X)) >= 3

\* the rb_nodes reached from root by left and right links, with repetition, to the
\* depth that a tree of all rb_nodes could have
Reached(n, root) == InOrderF(n, root, NumD + 3)

\* the links under root r form one tree: the root has no parent, every rb_node is the
\* parent of its children, every rb_node but the root is a child of its parent, and
\* none is reached twice
LinksConsistent(n, r) ==
    /\ n[r].parent = NULL
    /\ Cardinality(Range(Reached(n, r))) = Len(Reached(n, r))
    /\ \A a \in Range(Reached(n, r)) :
           /\ n[a].left # NULL => n[n[a].left].parent = a
           /\ n[a].right # NULL => n[n[a].right].parent = a
           /\ n[a].left # NULL => n[a].left # n[a].right
           /\ a # r =>
                 /\ n[a].parent \in Range(Reached(n, r))
                 /\ n[n[a].parent].left = a \/ n[n[a].parent].right = a

\* the same of the tree value that a rotation returns, which holds the rb_nodes that T
\* held
RotatedConsistent(T, R) ==
    /\ LinksConsistent(R.n, R.rbt)
    /\ Range(Reached(R.n, R.rbt)) = Range(Reached(T.n, T.rbt))

\* C35: the links are consistent in every tree a record holds between operations and
\* in the tree under construction or under change at every step of an operation,
\* that is after every rb_insert_node and rb_remove; and they are consistent after
\* rb_rotate_left and rb_rotate_right applied to any rb_node of such a tree that has
\* the child the rotation lifts.
C35_LinksConsistent ==
    pc \in {"idle", "build_next", "rb_insert", "rb_remove", "caller_unlink"} =>
        \A r \in Roots \cup (IF l_rbt # NULL THEN {l_rbt} ELSE {}) :
            /\ LinksConsistent(rb, r)
            /\ \A a \in TreeSet(rb, r) :
                   /\ rb[a].right # NULL =>
                         RotatedConsistent([n |-> rb, rbt |-> r],
                                           rb_rotate_left([n |-> rb, rbt |-> r], a))
                   /\ rb[a].left # NULL =>
                         RotatedConsistent([n |-> rb, rbt |-> r],
                                           rb_rotate_right([n |-> rb, rbt |-> r], a))

\* after a removal that took the root with two children out of a tree of six
C35_Witness ==
    /\ pc = "caller_unlink"
    /\ UnlinkRootBefore # NULL
    /\ pre.rb[UnlinkRootBefore].dnode = node
    /\ pre.rb[UnlinkRootBefore].left # NULL
    /\ pre.rb[UnlinkRootBefore].right # NULL
    /\ Cardinality(TreeSet(pre.rb, UnlinkRootBefore)) = 6
    /\ Cardinality(TreeSet(rb, lyds_get_rb_tree(meta, UnlinkHolder).rbt)) = 5

\* The tree engine alone, on one tree whose root the caller holds in rbt: rb_insert,
\* the find, removal and free of an rb_node as lyds_unlink does them, and
\* lyds_free_tree.  The instances of the leaf-list are LoopNodes; the first MaxGroup
\* of them share one value and the values of the others all differ.
LoopNodes == 1..(NumD + 5)

InitLoops ==
    /\ val = [d \in LoopNodes |-> IF d <= MaxGroup THEN 1 ELSE d]
    /\ modyang = TRUE
    /\ sibs = <<>>
    /\ InitIdle
    /\ arg = NoArg
    /\ result = NoResult

\* the rb_nodes of the tree under l_rbt, the instances they refer to, and its height
LoopsSet == Range(InOrderF(rb, l_rbt, NumD + 3))

LoopsD == {rb[a].dnode : a \in LoopsSet}

LoopsHeight == HeightF(rb, l_rbt, NumD + 3)

\* rb_insert(node, &rbt, &rbn) of an instance that is not in the tree
RbInsert(nd) ==
    /\ pc = "idle"
    /\ nd \notin LoopsD
    /\ LET R == rb_insert([n |-> rb, live |-> live], l_rbt, nd) IN
           /\ rb' = R.n
           /\ live' = R.live
           /\ l_rbt' = R.rbt
    /\ UNCHANGED <<val, modyang, sibs, meta, pc, leader, node, l_meta, l_iter, l_rbn, l_state,
                   arg, result, ret, op, pre>>

\* rb_remove_node of an instance that is in the tree, and rb_free_node of what it
\* removed; lyds_unlink leaves the tree alone when the instance is the only one
RbRemoveNode(nd) ==
    /\ pc = "idle"
    /\ nd \in LoopsD
    /\ Cardinality(LoopsD) >= 2
    /\ LET rbn == rb_find(rb, l_rbt, nd)
           T == rb_remove([n |-> rb, rbt |-> l_rbt], rbn)
           M == rb_free_node([n |-> T.n, live |-> live], rbn)
       IN  /\ rb' = M.n
           /\ live' = M.live
           /\ l_rbt' = T.rbt
    /\ UNCHANGED <<val, modyang, sibs, meta, pc, leader, node, l_meta, l_iter, l_rbn, l_state,
                   arg, result, ret, op, pre>>

\* lyds_free_tree(rbt)
LydsFreeTree ==
    /\ pc = "idle"
    /\ l_rbt # NULL
    /\ LET M == lyds_free_tree([n |-> rb, live |-> live], l_rbt) IN
           /\ rb' = M.n
           /\ live' = M.live
    /\ l_rbt' = NULL
    /\ UNCHANGED <<val, modyang, sibs, meta, pc, leader, node, l_meta, l_iter, l_rbn, l_state,
                   arg, result, ret, op, pre>>

NextLoops ==
    \/ \E nd \in LoopNodes : RbInsert(nd)
    \/ \E nd \in LoopNodes : RbRemoveNode(nd)
    \/ LydsFreeTree

SpecLoops == InitLoops /\ [][NextLoops]_vars

\* the turns a loop is given before it counts as not ending
MaxTurns == 2 * (NumD + 3)

Within(x, bound) == 0 <= x /\ x <= bound

\* the tree under r with a new rb_node for d linked where rb_insert_node puts it
LinkedFor(r, d) ==
    rb_insert_node_link([n |-> lyds_create_node([n |-> rb, live |-> live], d).n, rbt |-> r],
                        lyds_create_node([n |-> rb, live |-> live], d).rbn)

\* C31: on every tree the engine builds, with n rb_nodes and height h, every loop
\* ends: the descent of rb_insert_node within h turns and the loop of rb_insert_color
\* within h + 1, for every instance that is not in the tree; the search of the
\* successor in rb_remove and the loop of rb_remove_color within h, for every rb_node;
\* the do-while loop of rb_find within h and its two for loops within n, for every
\* instance in or out of the tree; the loop of lyds_free_tree in exactly n turns.
C31_LoopsEnd ==
    l_rbt # NULL =>
        /\ \A d \in LoopNodes \ LoopsD :
               /\ Within(rb_insert_descend_turns(rb, l_rbt, d, MaxTurns), LoopsHeight)
               /\ Within(rb_insert_color_turns(LinkedFor(l_rbt, d),
                             lyds_create_node([n |-> rb, live |-> live], d).rbn, MaxTurns),
                         LoopsHeight + 1)
        /\ \A X \in LoopsSet :
               /\ (rb[X].left # NULL /\ rb[X].right # NULL) =>
                     Within(rb_remove_successor_turns(rb, rb[X].right, MaxTurns), LoopsHeight)
               /\ Within(rb_remove_turns([n |-> rb, rbt |-> l_rbt], X, MaxTurns), LoopsHeight)
        /\ \A d \in LoopNodes :
               /\ Within(rb_find_loop_turns(rb, l_rbt, d, MaxTurns), LoopsHeight)
               /\ Within(rb_find_scan_turns(rb, rb_find_pivot(rb, l_rbt, d), d, MaxTurns),
                         Cardinality(LoopsSet))
        /\ lyds_free_tree_turns([n |-> rb, live |-> live], l_rbt, MaxTurns)
               = Cardinality(LoopsSet)

\* a tree on which a removal takes two turns of rb_remove_color, another removal
\* two turns of the search of the successor, an insertion a turn of rb_insert_color
\* after a descent of three, and rb_find a descent of three and a scan of two
C31_Witness ==
    /\ l_rbt # NULL
    /\ \E X \in LoopsSet :
           rb_remove_turns([n |-> rb, rbt |-> l_rbt], X, MaxTurns) >= 2
    /\ \E X \in LoopsSet :
           /\ rb[X].left # NULL
           /\ rb[X].right # NULL
           /\ rb_remove_successor_turns(rb, rb[X].right, MaxTurns) >= 2
    /\ \E d \in LoopNodes \ LoopsD :
           /\ rb_insert_descend_turns(rb, l_rbt, d, MaxTurns) >= 3
           /\ rb_insert_color_turns(LinkedFor(l_rbt, d),
                  lyds_create_node([n |-> rb, live |-> live], d).rbn, MaxTurns) >= 1
    /\ \E d \in LoopsD : rb_find_loop_turns(rb, l_rbt, d, MaxTurns) >= 3
    /\ \E d \in LoopsD :
           rb_find_scan_turns(rb, rb_find_pivot(rb, l_rbt, d), d, MaxTurns) >= 2
    /\ lyds_free_tree_turns([n |-> rb, live |-> live], l_rbt, MaxTurns) >= NumD + 4
====
